---- MODULE Spec2Model ----
(***************************************************************************)
(* Job queue, loader and worker dispatcher of evolution-postgres-backup.   *)
(*                                                                         *)
(* The control database's jobs table is shared by several JobQueue         *)
(* instances (worker processes).  Each queue owns a bounded channel, one   *)
(* loader goroutine and a pool of workers.                                 *)
(*                                                                         *)
(* Granularity.  Every database statement of the loader is one step (the   *)
(* SELECT, the claim UPDATE, and the send-or-rollback that follows it), so *)
(* loaders, workers and AddJob calls of all processes interleave between   *)
(* them.  AddJob (INSERT, then the non-blocking send) is one step, and so  *)
(* are a worker's receipt of a job and the end of processJob (status       *)
(* decision, currentJob = nil, UPDATE); the handler runs between the two.  *)
(*                                                                         *)
(* Of a jobs row the model keeps status, retry_count, max_retries,         *)
(* priority, created_at and started_at.  The clock counts staleness        *)
(* intervals: with StaleAfter = 0 a started_at of an earlier tick is more  *)
(* than 5 minutes old, one of the current tick is not.                     *)
(***************************************************************************)
EXTENDS Integers, Sequences, FiniteSets, TLC

(* ------------------------------ bounds -------------------------------- *)
\* number of job ids AddJob can hand out
MaxJobs == 2
\* number of JobQueue instances (worker processes) sharing the database
NumQueues == 2
\* workers per queue (WORKER_COUNT)
WorkersPerQueue == 1
\* capacity of the local channel (1000 in NewJobQueue, scaled down)
ChanCap == 1
\* LIMIT of the loader's SELECT (10 in the source, scaled down)
LoadLimit == 1
\* the staleness interval (5 minutes in the source) in clock ticks beyond the
\* first: a started_at is stale when it lies more than StaleAfter ticks back
StaleAfter == 0
\* last instant of the model's clock
MaxTime == 1
\* number of process crashes in one behaviour
MaxCrashes == 1

(* ------------------------- program constants -------------------------- *)
DefaultMaxRetries == 3

JobIds == 1..MaxJobs
Queues == 1..NumQueues
Workers == Queues \X (1..WorkersPerQueue)
Times == 0..MaxTime

\* priorities a caller passes (5 is the API's default)
Priorities == {5}
\* MaxRetries a caller passes: 0 (unset), 1 (restore)
MaxRetriesInputs == {0, 1}

JobStatusPending == "pending"
JobStatusRunning == "running"
JobStatusCompleted == "completed"
JobStatusFailed == "failed"
JobStatusRetrying == "retrying"

\* The two definitions of the jobs table the repository ships.  Both are
\* CREATE TABLE IF NOT EXISTS, so the one applied first fixes the constraint.
SchemaPostgres == "schema_postgres.sql"
SchemaMigration == "migrate_add_jobs_table.sql"
Schemas == {SchemaPostgres, SchemaMigration}

\* CHECK(status IN (...)) of the jobs table under schema s
StatusCheck(s) ==
    IF s = SchemaPostgres
    THEN {"pending", "running", "completed", "failed", "cancelled"}
    ELSE {"pending", "running", "completed", "failed", "retrying"}

\* a jobs row that does not exist
AbsentRow ==
    [status |-> "absent", retry_count |-> 0, max_retries |-> 0,
     priority |-> 0, created_at |-> 0, started_at |-> {}]

VARIABLES
    schema,     \* which jobs-table definition the database was created with
    now,        \* the clock (time.Now() / NOW())
    rows,       \* jobs table: job id -> row
    chan,       \* q.jobs of each queue: sequence of in-memory jobs
    ldr,        \* loader goroutine of each queue
    wrk,        \* workers: position, currentJob, local job
    claimsNet,  \* history: successful claims minus rollbacks, per job
    loaderPushes, \* history: sends of a claimed job by a loader, per job
    crashes,    \* history: process crashes so far
    running,    \* q.running of each queue
    ctxDone,    \* q.ctx of each queue is cancelled
    closed,     \* q.jobs of each queue is closed
    stopPc,     \* position of the Stop call on each queue
    adds,       \* AddJob calls by job id: position, queue, result
    wstatus,    \* w.status of each worker
    backups,    \* backups table: backup id -> row
    jobBackup,  \* jobs.backup_id of each job row (0: empty)
    hnd,        \* processBackupJob of each worker: position and its BackupInfo
    apiUpd,     \* backups whose creator has yet to run its Update after AddJob
    instDbs,    \* postgresql_instances.databases of each instance
    enabled,    \* postgresql_instances.enabled of each instance
    sched,      \* the scheduler's cron function: position, cadence, pairs to do
    backupMeta, \* backups: postgresql_id, database_name, backup_type of each row
    jobMeta,    \* jobs: type, postgres_id, database_name of each row, and the
                \* backup_type its payload column holds
    objects,    \* object store: the keys under one backups/{instance}/{cadence}/
    uploadTime, \* the clock that stamps uploaded files
    retention,  \* RetentionPolicy of the cadence
    clean,      \* the cleanup job and the CleanupOldBackups call: position, listing
    tickLog,    \* history: what the last tick of each loader selected and sent
    chanType,   \* Payload["backup_type"] of the jobs in q.jobs of each queue
    wrkType,    \* backupType of processBackupJob of each worker
    fileType,   \* the backup type in the file name each worker built
    madeType,   \* history: the backup_type each job was created with
    tempFiles,  \* the files in the temp directory of the legacy BackupService
    rst,        \* RestoreBackup calls by backup id: position, path, result
    dmp,        \* the workers of one queue in processBackupJob: position, path
    startTime,  \* backups.start_time of each backup: second and nanosecond
    nano        \* the nanoseconds of the clock within the current second

\* life cycle of the queues (Start, Stop) and the AddJob calls followed step by step
lifeVars == <<running, ctxDone, closed, stopPc, adds, wstatus>>

\* the backups table and the code that writes it
backupVars == <<backups, jobBackup, hnd, apiUpd>>

\* the instance registry and the scheduler
schedVars == <<instDbs, enabled, sched, backupMeta, jobMeta>>

\* the object store and retention cleanup
cleanupVars == <<objects, uploadTime, retention, clean>>

\* state outside the job table, the loaders and the workers
\* what the loaders did in their last tick
orderVars == <<tickLog>>

\* the backup type of the in-memory jobs and what the handler makes of it
cadVars == <<chanType, wrkType, fileType, madeType>>

\* the legacy service's restore and its temp files
restoreVars == <<tempFiles, rst>>

\* the dump files of the workers of one process
dumpVars == <<dmp, startTime, nano>>

extVars == <<lifeVars, backupVars, schedVars, cleanupVars, orderVars, cadVars,
             restoreVars, dumpVars>>

\* the job table, the channels, the loaders, the workers and their history
coreVars == <<schema, now, rows, chan, ldr, wrk, claimsNet, loaderPushes, crashes>>

vars == <<schema, now, rows, chan, ldr, wrk, claimsNet, loaderPushes, crashes, extVars>>

Min(a, b) == IF a < b THEN a ELSE b

(* ------------------------------ database ------------------------------ *)

\* started_at < NOW() - INTERVAL '5 minutes'
IsStale(row, t) == \E s \in row.started_at : s < t - StaleAfter

\* WHERE clause of the loader's SELECT
Eligible(row, t) ==
    \/ row.status = "pending"
    \/ row.status = "retrying"
    \/ (row.status = "running" /\ IsStale(row, t))

\* ORDER BY priority DESC, created_at ASC
SortsBeforeByAge(a, b) == rows[a].created_at < rows[b].created_at
SortsBefore(a, b) ==
    \/ rows[a].priority > rows[b].priority
    \/ (rows[a].priority = rows[b].priority /\ rows[a].created_at < rows[b].created_at)

EligibleIds == {j \in JobIds : Eligible(rows[j], now)}

\* position of j in the ordered result
RankOf(j) == Cardinality({k \in EligibleIds : SortsBefore(k, j)})

\* the in-memory Job the loader builds from a scanned row
ScannedJob(j) ==
    [id |-> j, retry_count |-> rows[j].retry_count, max_retries |-> rows[j].max_retries]

\* the loader's query with LIMIT limit: the first limit eligible rows, in order
SelectFirst(limit) ==
    LET n == Min(limit, Cardinality(EligibleIds))
    IN [i \in 1..n |-> ScannedJob(CHOOSE j \in EligibleIds : RankOf(j) = i - 1)]

\* the loader's query: the first LoadLimit eligible rows, in order
SelectJobs == SelectFirst(LoadLimit)

\* WHERE id = $2 AND status = 'pending' of the claim UPDATE
ClaimCondIdOnly(row, t) == row.status # "absent"
ClaimCondAnyRunning(row, t) == row.status = "pending" \/ row.status = "running"
ClaimCond(row, t) == row.status = "pending"

\* rows affected by the claim UPDATE for job j
ClaimAffected(j) == IF ClaimCond(rows[j], now) THEN 1 ELSE 0

\* number of backup ids that can be handed out
MaxBackups == 2
BackupIds == 1..MaxBackups

BackupStatusPending == "pending"
BackupStatusInProgress == "in_progress"
BackupStatusCompleted == "completed"
BackupStatusFailed == "failed"

\* a backups row that does not exist
AbsentBackup == [status |-> "absent", end_time |-> FALSE, s3_key |-> FALSE, job_id |-> 0]

\* processBackupJob not running
NoHandler == [pc |-> "none", id |-> 0, backup |-> AbsentBackup, ok |-> FALSE, err |-> "none"]

\* no backups, no backup handler running
NoBackups ==
    /\ backups = [b \in BackupIds |-> AbsentBackup]
    /\ jobBackup = [j \in JobIds |-> 0]
    /\ hnd = [w \in Workers |-> NoHandler]
    /\ apiUpd = {}

\* registered instances, the names their databases can have, the cadences
Instances == {"A", "B"}
DbNames == {"d1", "d2"}
Cadences == {"hourly", "daily"}

\* columns of a backups or jobs row that does not exist
NoMeta == [inst |-> "", db |-> "", type |-> "", backup_type |-> "", tick_enabled |-> FALSE]

\* the scheduler's cron function not running
SchedIdle ==
    [pc |-> "idle", cadence |-> "", todo |-> <<>>, enabledAt |-> [i \in Instances |-> FALSE],
     created |-> {}, backupsBefore |-> {}, jobsBefore |-> {}, failed |-> FALSE]

\* no instance registered, no scheduler
NoScheduler ==
    /\ instDbs = [i \in Instances |-> <<>>]
    /\ enabled = [i \in Instances |-> FALSE]
    /\ sched = SchedIdle
    /\ backupMeta = [b \in BackupIds |-> NoMeta]
    /\ jobMeta = [j \in JobIds |-> NoMeta]

\* no cleanup job and no CleanupOldBackups call
CleanIdle ==
    [pc |-> "idle", job |-> "none", uploadedSince |-> FALSE, err |-> FALSE,
     before |-> {}, listed |-> <<>>, todo |-> <<>>, attempted |-> {},
     failures |-> 0, disturbed |-> FALSE]

\* an empty prefix, nothing cleaning it
NoCleanup ==
    /\ objects = {}
    /\ uploadTime = 0
    /\ retention = 0
    /\ clean = CleanIdle

\* a loader that has not run its query
NoTick == [limit |-> 0, eligible |-> {}, batch |-> <<>>, pushed |-> <<>>]

NoTickLog == tickLog = [q \in Queues |-> NoTick]

\* no backup type in flight: empty channels, workers outside processBackupJob
NoCadence ==
    /\ chanType = [q \in Queues |-> <<>>]
    /\ wrkType = [w \in Workers |-> ""]
    /\ fileType = [w \in Workers |-> ""]
    /\ madeType = [j \in JobIds |-> ""]

\* workers of one queue (WORKER_COUNT) whose dump files are followed
DumpWorkerCount == 2
DumpWorkers == 1..DumpWorkerCount
\* nanoseconds the clock can show within one second (scaled down)
MaxNano == 2

\* RestoreBackup not called
NoRestoreCall == [pc |-> "idle", path |-> <<>>, ret |-> "none", touched |-> FALSE]

\* no restore and an empty temp directory
NoRestore ==
    /\ tempFiles = {}
    /\ rst = [b \in BackupIds |-> NoRestoreCall]

\* a worker outside processBackupJob
NoDumpJob == [pc |-> "idle", job |-> 0, path |-> <<>>]

\* no dump running
NoDump ==
    /\ dmp = [k \in DumpWorkers |-> NoDumpJob]
    /\ startTime = [b \in BackupIds |-> <<0, 0>>]
    /\ nano = 0

\* an AddJob call that has not been made
NoCall == [pc |-> "idle", q |-> 0, ret |-> "none", stopSeen |-> FALSE]

\* the queues of the worker processes after NewJobQueue and Start
QueuesStarted ==
    /\ running = [q \in Queues |-> TRUE]
    /\ ctxDone = [q \in Queues |-> FALSE]
    /\ closed = [q \in Queues |-> FALSE]
    /\ stopPc = [q \in Queues |-> "none"]
    /\ adds = [j \in JobIds |-> NoCall]
    /\ wstatus = [w \in Workers |-> "idle"]

TypeOK ==
    /\ schema \in Schemas
    /\ now \in Times
    /\ \A j \in JobIds : rows[j].status \in
          {"absent", "pending", "running", "completed", "failed", "retrying"}
    /\ \A q \in Queues : Len(chan[q]) <= ChanCap

Init ==
    /\ schema \in Schemas
    /\ now = 0
    /\ rows = [j \in JobIds |-> AbsentRow]
    /\ chan = [q \in Queues |-> <<>>]
    /\ ldr = [q \in Queues |-> [pc |-> "wait", batch |-> <<>>]]
    /\ wrk = [w \in Workers |-> [pc |-> "idle", job |-> <<>>]]
    /\ claimsNet = [j \in JobIds |-> 0]
    /\ loaderPushes = [j \in JobIds |-> 0]
    /\ crashes = 0
    /\ QueuesStarted
    /\ NoBackups
    /\ NoScheduler
    /\ NoCleanup
    /\ NoTickLog
    /\ NoCadence
    /\ NoRestore
    /\ NoDump

(* -------------------------------- AddJob ------------------------------ *)

\* job.MaxRetries == 0 is replaced by the default
EffectiveMaxRetries(mr) == IF mr = 0 THEN DefaultMaxRetries ELSE mr

\* generateJobID: an id no row carries
FreeIds == {j \in JobIds : rows[j].status = "absent"}

\* AddJob goes on to the hand-off only when persistJob returned nil
ReachesHandOffAlways(inserted) == TRUE
ReachesHandOff(inserted) == inserted

\* AddJob: defaults, status = pending, persistJob (the INSERT; inserted = FALSE is
\* the INSERT failing), then the non-blocking send on q.jobs
AddJob(q, pr, mr, inserted) ==
    /\ FreeIds # {}
    /\ LET j == CHOOSE k \in FreeIds : \A m \in FreeIds : k <= m
           job == [id |-> j, retry_count |-> 0, max_retries |-> EffectiveMaxRetries(mr)]
       IN /\ rows' = IF inserted
                     THEN [rows EXCEPT ![j] =
                             [status |-> JobStatusPending, retry_count |-> 0,
                              max_retries |-> job.max_retries, priority |-> pr,
                              created_at |-> j, started_at |-> {}]]
                     ELSE rows
          /\ chan' = IF ReachesHandOff(inserted) /\ Len(chan[q]) < ChanCap
                     THEN [chan EXCEPT ![q] = Append(@, job)]
                     ELSE chan
    /\ UNCHANGED <<schema, now, ldr, wrk, claimsNet, loaderPushes, crashes>>

(* -------------------------------- loader ------------------------------ *)

\* the loader moves on to the next scanned row
NextRow(l) ==
    [pc |-> IF Len(l.batch) > 1 THEN "claim" ELSE "wait", batch |-> Tail(l.batch)]

\* ticker.C fired: run the SELECT (with LIMIT limit) and start scanning its rows
LoaderTickLimit(q, limit) ==
    /\ ldr[q].pc = "wait"
    /\ ldr' = [ldr EXCEPT ![q] =
                 [pc |-> IF SelectFirst(limit) = <<>> THEN "wait" ELSE "claim",
                  batch |-> SelectFirst(limit)]]
    /\ UNCHANGED <<schema, now, rows, chan, wrk, claimsNet, loaderPushes, crashes>>

LoaderTick(q) == LoaderTickLimit(q, LoadLimit)

\* the claim UPDATE for the row being scanned; execFails is Exec returning an error
LoaderClaim(q, execFails) ==
    /\ ldr[q].pc = "claim"
    /\ LET j == Head(ldr[q].batch).id
       IN IF execFails \/ ClaimAffected(j) = 0
          THEN /\ ldr' = [ldr EXCEPT ![q] = NextRow(@)]
               /\ UNCHANGED <<rows, claimsNet>>
          ELSE /\ rows' = [rows EXCEPT ![j].status = JobStatusRunning,
                                       ![j].started_at = {now}]
               /\ claimsNet' = [claimsNet EXCEPT ![j] = Min(@ + 1, 2)]
               /\ ldr' = [ldr EXCEPT ![q].pc = "push"]
    /\ UNCHANGED <<schema, now, chan, wrk, loaderPushes, crashes>>

\* the non-blocking send of the claimed job, or the rollback UPDATE
LoaderPush(q) ==
    /\ ldr[q].pc = "push"
    /\ LET job == Head(ldr[q].batch)
       IN IF Len(chan[q]) < ChanCap
          THEN /\ chan' = [chan EXCEPT ![q] = Append(@, job)]
               /\ loaderPushes' = [loaderPushes EXCEPT ![job.id] = Min(@ + 1, 2)]
               /\ UNCHANGED <<rows, claimsNet>>
          ELSE /\ rows' = [rows EXCEPT ![job.id].status = JobStatusPending,
                                       ![job.id].started_at = {}]
               /\ claimsNet' = [claimsNet EXCEPT ![job.id] = IF @ > 0 THEN @ - 1 ELSE 0]
               /\ UNCHANGED <<chan, loaderPushes>>
    /\ ldr' = [ldr EXCEPT ![q] = NextRow(@)]
    /\ UNCHANGED <<schema, now, wrk, crashes>>

(* -------------------------------- worker ------------------------------ *)

\* the status processJob gives a job whose handler returned (ok = no error);
\* rc is the already incremented RetryCount
DispatchStatus(ok, rc, max) ==
    IF ok THEN JobStatusCompleted
    ELSE IF rc < max THEN JobStatusRetrying ELSE JobStatusFailed

\* Worker.Start receives a job; processJob takes it as currentJob
WorkerReceive(w) ==
    /\ wrk[w].pc = "idle"
    /\ chan[w[1]] # <<>>
    /\ LET job == Head(chan[w[1]])
       IN wrk' = [wrk EXCEPT ![w] =
                    [pc |-> "working",
                     job |-> <<[id |-> job.id, retry_count |-> job.retry_count,
                                max_retries |-> job.max_retries, started_at |-> now]>>]]
    /\ chan' = [chan EXCEPT ![w[1]] = Tail(@)]
    /\ UNCHANGED <<schema, now, rows, ldr, claimsNet, loaderPushes, crashes>>

\* the row after UPDATE jobs SET status, retry_count, started_at WHERE id = job.id;
\* a status the table's CHECK rejects fails the statement, which processJob only logs
UpdateJobStatus(job, status) ==
    IF rows[job.id].status # "absent" /\ status \in StatusCheck(schema)
    THEN [rows EXCEPT ![job.id].status = status,
                      ![job.id].retry_count = job.retry_count,
                      ![job.id].started_at = {job.started_at}]
    ELSE rows

\* the handler returned (ok = no error): processJob decides the status, clears
\* currentJob and writes the row
WorkerFinish(w, ok) ==
    /\ wrk[w].pc = "working"
    /\ LET old == wrk[w].job[1]
           job == [old EXCEPT !.retry_count = IF ok THEN @ ELSE @ + 1]
       IN rows' = UpdateJobStatus(job, DispatchStatus(ok, job.retry_count, job.max_retries))
    /\ wrk' = [wrk EXCEPT ![w] = [pc |-> "idle", job |-> <<>>]]
    /\ UNCHANGED <<schema, now, chan, ldr, claimsNet, loaderPushes, crashes>>

(* ----------------------------- environment ---------------------------- *)

\* the process hosting queue q is killed and started again: everything it held in
\* memory is gone, the database is untouched
Crash(q) ==
    /\ crashes < MaxCrashes
    /\ \/ chan[q] # <<>>
       \/ ldr[q].pc # "wait"
       \/ \E w \in Workers : w[1] = q /\ wrk[w].pc # "idle"
    /\ chan' = [chan EXCEPT ![q] = <<>>]
    /\ ldr' = [ldr EXCEPT ![q] = [pc |-> "wait", batch |-> <<>>]]
    /\ wrk' = [w \in Workers |-> IF w[1] = q THEN [pc |-> "idle", job |-> <<>>] ELSE wrk[w]]
    /\ crashes' = crashes + 1
    /\ UNCHANGED <<schema, now, rows, claimsNet, loaderPushes>>

\* time passes
Tick ==
    /\ now < MaxTime
    /\ now' = now + 1
    /\ UNCHANGED <<schema, rows, chan, ldr, wrk, claimsNet, loaderPushes, crashes>>

\* the job queue of the worker processes; the state outside it stays as it is
Next ==
    \/ \E q \in Queues, pr \in Priorities, mr \in MaxRetriesInputs, inserted \in BOOLEAN :
          AddJob(q, pr, mr, inserted) /\ UNCHANGED extVars
    \/ \E q \in Queues : LoaderTick(q) /\ UNCHANGED extVars
    \/ \E q \in Queues, execFails \in BOOLEAN : LoaderClaim(q, execFails) /\ UNCHANGED extVars
    \/ \E q \in Queues : LoaderPush(q) /\ UNCHANGED extVars
    \/ \E w \in Workers : WorkerReceive(w) /\ UNCHANGED extVars
    \/ \E w \in Workers, ok \in BOOLEAN : WorkerFinish(w, ok) /\ UNCHANGED extVars
    \/ \E q \in Queues : Crash(q) /\ UNCHANGED extVars
    \/ Tick /\ UNCHANGED extVars

Spec == Init /\ [][Next]_vars

\* The loader's ticker fires every 5 seconds and its loop body runs to the end;
\* the claim UPDATE does not fail for ever (strong fairness of the statement
\* going through); an idle worker blocks on the channel and takes what is there;
\* a handler returns.  Crashes and AddJob calls are up to the environment.
Fairness ==
    /\ \A q \in Queues :
          /\ WF_vars(LoaderTick(q) /\ UNCHANGED extVars)
          /\ SF_vars(LoaderClaim(q, FALSE) /\ UNCHANGED extVars)
          /\ WF_vars(LoaderPush(q) /\ UNCHANGED extVars)
    /\ \A w \in Workers :
          /\ WF_vars(WorkerReceive(w) /\ UNCHANGED extVars)
          /\ WF_vars(\E ok \in BOOLEAN : WorkerFinish(w, ok) /\ UNCHANGED extVars)
    /\ WF_vars(Tick /\ UNCHANGED extVars)

FairSpec == Init /\ [][Next]_vars /\ Fairness

(* ------------------------ queue life cycle --------------------------- *)
\* Start, Stop and AddJob of one JobQueue followed statement by statement.  Stop
\* holds q.mu from cancel() to close(q.jobs); AddJob takes no lock, so its INSERT
\* and its select interleave with Stop.  No loader runs here: the rows stay as
\* AddJob wrote them.

ErrQueueFull == "queue is full"
ErrShuttingDown == "queue is shutting down"
ErrPersist == "failed to persist job"

\* NewJobQueue: nothing started, the context live, the channel open and empty
LifeInit ==
    /\ schema = SchemaMigration
    /\ now = 0
    /\ rows = [j \in JobIds |-> AbsentRow]
    /\ chan = [q \in Queues |-> <<>>]
    /\ ldr = [q \in Queues |-> [pc |-> "wait", batch |-> <<>>]]
    /\ wrk = [w \in Workers |-> [pc |-> "none", job |-> <<>>]]
    /\ claimsNet = [j \in JobIds |-> 0]
    /\ loaderPushes = [j \in JobIds |-> 0]
    /\ crashes = 0
    /\ running = [q \in Queues |-> FALSE]
    /\ ctxDone = [q \in Queues |-> FALSE]
    /\ closed = [q \in Queues |-> FALSE]
    /\ stopPc = [q \in Queues |-> "none"]
    /\ adds = [j \in JobIds |-> NoCall]
    /\ wstatus = [w \in Workers |-> "none"]
    /\ NoBackups
    /\ NoScheduler
    /\ NoCleanup
    /\ NoTickLog
    /\ NoCadence
    /\ NoRestore
    /\ NoDump

\* Start: if !q.running, a new Worker (status idle) and a goroutine per worker on
\* q.jobs and q.ctx; running = true
Start(q) ==
    /\ ~running[q]
    /\ stopPc[q] # "closing"
    /\ running' = [running EXCEPT ![q] = TRUE]
    /\ wrk' = [w \in Workers |->
                 IF w[1] = q /\ wrk[w].pc \in {"none", "exited"}
                 THEN [pc |-> "idle", job |-> <<>>] ELSE wrk[w]]
    /\ wstatus' = [w \in Workers |->
                     IF w[1] = q /\ wrk[w].pc \in {"none", "exited"}
                     THEN "idle" ELSE wstatus[w]]
    /\ UNCHANGED <<schema, now, rows, chan, ldr, claimsNet, loaderPushes, crashes,
                   ctxDone, closed, stopPc, adds>>

\* Stop, first half: q.running holds, so q.cancel()
StopCancel(q) ==
    /\ running[q]
    /\ stopPc[q] \in {"none", "done"}
    /\ ctxDone' = [ctxDone EXCEPT ![q] = TRUE]
    /\ stopPc' = [stopPc EXCEPT ![q] = "closing"]
    /\ UNCHANGED <<schema, now, rows, chan, ldr, wrk, claimsNet, loaderPushes, crashes,
                   running, closed, adds, wstatus>>

\* Stop, second half: worker.Stop() on every worker, which sets its status and
\* waits for nothing; close(q.jobs); q.running = false.  On a queue stopped and
\* started again the channel is already closed and close panics: running stays
\* true, the deferred Unlock runs
StopClose(q) ==
    /\ stopPc[q] = "closing"
    /\ wstatus' = [w \in Workers |-> IF w[1] = q THEN "stopped" ELSE wstatus[w]]
    /\ IF closed[q]
       THEN /\ stopPc' = [stopPc EXCEPT ![q] = "panicked"]
            /\ UNCHANGED <<closed, running>>
       ELSE /\ closed' = [closed EXCEPT ![q] = TRUE]
            /\ running' = [running EXCEPT ![q] = FALSE]
            /\ stopPc' = [stopPc EXCEPT ![q] = "done"]
    /\ UNCHANGED <<schema, now, rows, chan, ldr, wrk, claimsNet, loaderPushes, crashes,
                   ctxDone, adds>>

\* Stop on a queue that is not running returns at once
StopNotRunning(q) ==
    /\ ~running[q]
    /\ stopPc[q] = "none"
    /\ stopPc' = [stopPc EXCEPT ![q] = "done"]
    /\ UNCHANGED <<schema, now, rows, chan, ldr, wrk, claimsNet, loaderPushes, crashes,
                   running, ctxDone, closed, adds, wstatus>>

\* AddJob up to persistJob: the INSERT of the pending row, or its failure
AddJobPersist(q, inserted) ==
    /\ FreeIds # {}
    /\ LET j == CHOOSE k \in FreeIds : \A m \in FreeIds : k <= m
       IN /\ adds[j].pc = "idle"
          /\ IF inserted
             THEN /\ rows' = [rows EXCEPT ![j] =
                                [status |-> JobStatusPending, retry_count |-> 0,
                                 max_retries |-> EffectiveMaxRetries(0), priority |-> 5,
                                 created_at |-> j, started_at |-> {}]]
                  /\ adds' = [adds EXCEPT ![j] = [NoCall EXCEPT !.pc = "select", !.q = q]]
             ELSE /\ rows' = rows
                  /\ adds' = [adds EXCEPT ![j] =
                                [NoCall EXCEPT !.pc = "done", !.q = q, !.ret = ErrPersist]]
    /\ UNCHANGED <<schema, now, chan, ldr, wrk, claimsNet, loaderPushes, crashes,
                   running, ctxDone, closed, stopPc, wstatus>>

\* the cases of AddJob's select that can proceed: a send on a channel with room,
\* and also on a closed channel (it proceeds by panicking); the receive from
\* q.ctx.Done() once the context is cancelled
SendReadyAlways(q) == TRUE
SendReady(q) == closed[q] \/ Len(chan[q]) < ChanCap
DoneReady(q) == ctxDone[q]

\* AddJob's select: one of the cases that can proceed, picked at random by the
\* runtime; the default case when none can
AddJobSelect(j, pick) ==
    /\ adds[j].pc = "select"
    /\ LET q == adds[j].q
           job == [id |-> j, retry_count |-> 0, max_retries |-> rows[j].max_retries]
           res == IF ~SendReady(q) /\ ~DoneReady(q) THEN ErrQueueFull
                  ELSE IF pick = "send" THEN (IF closed[q] THEN "panic" ELSE "nil")
                  ELSE ErrShuttingDown
       IN /\ (SendReady(q) \/ DoneReady(q)) =>
                IF pick = "send" THEN SendReady(q) ELSE DoneReady(q)
          /\ (~SendReady(q) /\ ~DoneReady(q)) => pick = "send"
          /\ chan' = IF res = "nil" THEN [chan EXCEPT ![q] = Append(@, job)] ELSE chan
          /\ adds' = [adds EXCEPT ![j] =
                        [pc |-> "done", q |-> q, ret |-> res, stopSeen |-> ctxDone[q]]]
    /\ UNCHANGED <<schema, now, rows, ldr, wrk, claimsNet, loaderPushes, crashes,
                   running, ctxDone, closed, stopPc, wstatus>>

\* Worker.Start's select on a closed and drained channel, or on a cancelled
\* context: the goroutine returns
WorkerExit(w) ==
    /\ wrk[w].pc = "idle"
    /\ ctxDone[w[1]] \/ (closed[w[1]] /\ chan[w[1]] = <<>>)
    /\ wrk' = [wrk EXCEPT ![w] = [pc |-> "exited", job |-> <<>>]]
    /\ UNCHANGED <<schema, now, rows, chan, ldr, claimsNet, loaderPushes, crashes, lifeVars>>

\* processJob, first lines: the job received becomes currentJob, status working
ProcessJobBegin(w) ==
    /\ WorkerReceive(w)
    /\ wstatus' = [wstatus EXCEPT ![w] = "working"]
    /\ UNCHANGED <<running, ctxDone, closed, stopPc, adds>>

\* processJob, after the handler: currentJob = nil, status idle, the row written
ProcessJobEnd(w, ok) ==
    /\ WorkerFinish(w, ok)
    /\ wstatus' = [wstatus EXCEPT ![w] = "idle"]
    /\ UNCHANGED <<running, ctxDone, closed, stopPc, adds>>

\* state the life cycle leaves alone
notLife == <<backupVars, schedVars, cleanupVars, orderVars, cadVars,
    restoreVars, dumpVars>>

LifeNext ==
    \/ \E q \in Queues : Start(q) /\ UNCHANGED notLife
    \/ \E q \in Queues : StopCancel(q) /\ UNCHANGED notLife
    \/ \E q \in Queues : StopClose(q) /\ UNCHANGED notLife
    \/ \E q \in Queues : StopNotRunning(q) /\ UNCHANGED notLife
    \/ \E q \in Queues, inserted \in BOOLEAN : AddJobPersist(q, inserted) /\ UNCHANGED notLife
    \/ \E j \in JobIds, pick \in {"send", "done"} : AddJobSelect(j, pick) /\ UNCHANGED notLife
    \/ \E w \in Workers : ProcessJobBegin(w) /\ UNCHANGED notLife
    \/ \E w \in Workers, ok \in BOOLEAN : ProcessJobEnd(w, ok) /\ UNCHANGED notLife
    \/ \E w \in Workers : WorkerExit(w) /\ UNCHANGED notLife

LifeSpec == LifeInit /\ [][LifeNext]_vars

(* ------------------------------ backups ------------------------------ *)
\* The backups table as written by the API handler and the scheduler (Create,
\* AddJob, Update) and by the worker's processBackupJob (GetByID or Create, then
\* one Update per status).  Every repository call is one step.  Of a row the
\* model keeps status, whether end_time and s3_key are set, and job_id.

\* the backup_id a worker finds in the payload of job j: the value persistJob
\* stored in jobs.backup_id, which is also what the loader puts in the payload
PayloadBackupIdDropped(j) == 0
PayloadBackupId(j) == jobBackup[j]

\* backup ids no row carries
FreeBackupIds == {b \in BackupIds : backups[b].status = "absent"}

\* BackupRepository.Update: status, end_time, s3_key (and file_path, file_size,
\* error_message) of the row with b's id are overwritten from b; job_id is not
UpdateBackup(row, b) ==
    IF row.status \in {"absent", "deleted"} THEN row
    ELSE [row EXCEPT !.status = b.status, !.end_time = b.end_time, !.s3_key = b.s3_key]

\* the BackupInfo the API handler, the scheduler and the worker build: pending,
\* no end_time, no s3_key
NewBackup(job) ==
    [status |-> BackupStatusPending, end_time |-> FALSE, s3_key |-> FALSE, job_id |-> job]

\* the queues of the worker processes, started, and an empty database
BackupInit ==
    /\ schema = SchemaMigration
    /\ now = 0
    /\ rows = [j \in JobIds |-> AbsentRow]
    /\ chan = [q \in Queues |-> <<>>]
    /\ ldr = [q \in Queues |-> [pc |-> "wait", batch |-> <<>>]]
    /\ wrk = [w \in Workers |-> [pc |-> "idle", job |-> <<>>]]
    /\ claimsNet = [j \in JobIds |-> 0]
    /\ loaderPushes = [j \in JobIds |-> 0]
    /\ crashes = 0
    /\ QueuesStarted
    /\ NoBackups
    /\ NoScheduler
    /\ NoCleanup
    /\ NoTickLog
    /\ NoCadence
    /\ NoRestore
    /\ NoDump

\* CreateBackupJob (and the scheduler's loop body, which is the same code): Create
\* the pending backup, AddJob with its id in the payload; when AddJob returned
\* nil the Update of the backup is still to come
CreateBackupJob(q, pr, inserted) ==
    /\ FreeBackupIds # {}
    /\ FreeIds # {}
    /\ LET b == CHOOSE k \in FreeBackupIds : \A m \in FreeBackupIds : k <= m
           j == CHOOSE k \in FreeIds : \A m \in FreeIds : k <= m
       IN /\ backups' = [backups EXCEPT ![b] = NewBackup(0)]
          /\ AddJob(q, pr, DefaultMaxRetries, inserted)
          /\ jobBackup' = IF inserted THEN [jobBackup EXCEPT ![j] = b] ELSE jobBackup
          /\ apiUpd' = IF inserted /\ Len(chan[q]) < ChanCap THEN apiUpd \cup {b} ELSE apiUpd
    /\ UNCHANGED hnd

\* "Associate backup with job and update": backup.JobID = job.ID and Update of the
\* BackupInfo built before AddJob, whose status is still pending
CreateBackupJobUpdate(b) ==
    /\ b \in apiUpd
    /\ backups' = [backups EXCEPT ![b] = UpdateBackup(@, NewBackup(0))]
    /\ apiUpd' = apiUpd \ {b}
    /\ UNCHANGED <<coreVars, jobBackup, hnd>>

\* AddBackupJob (CreateBulkBackupJobs): a backup job without backup_id
AddBackupJob(q, pr, inserted) ==
    /\ AddJob(q, pr, DefaultMaxRetries, inserted)
    /\ UNCHANGED backupVars

\* processBackupJob up to its first write: GetByID of the backup the payload
\* names, or Create of a new pending backup when the payload names none
BackupFetch(w) ==
    /\ wrk[w].pc = "working"
    /\ hnd[w].pc = "none"
    /\ LET j == wrk[w].job[1].id
           bid == PayloadBackupId(j)
       IN IF bid # 0
          THEN /\ hnd' = [hnd EXCEPT ![w] =
                            IF backups[bid].status \in {"absent", "deleted"}
                            THEN [pc |-> "returned", id |-> bid,
                                  backup |-> AbsentBackup, ok |-> FALSE,
                                  err |-> "backup"]
                            ELSE [pc |-> "loaded", id |-> bid,
                                  backup |-> backups[bid], ok |-> FALSE,
                                  err |-> "none"]]
               /\ UNCHANGED backups
          ELSE /\ FreeBackupIds # {}
               /\ LET b == CHOOSE k \in FreeBackupIds : \A m \in FreeBackupIds : k <= m
                  IN /\ backups' = [backups EXCEPT ![b] = NewBackup(j)]
                     /\ hnd' = [hnd EXCEPT ![w] =
                                  [pc |-> "loaded", id |-> b,
                                   backup |-> NewBackup(j), ok |-> FALSE,
                                   err |-> "none"]]
    /\ UNCHANGED <<coreVars, jobBackup, apiUpd>>

\* backup.Status = in_progress; Update
BackupMarkInProgress(w) ==
    /\ hnd[w].pc = "loaded"
    /\ LET nb == [hnd[w].backup EXCEPT !.status = BackupStatusInProgress]
       IN /\ backups' = [backups EXCEPT ![hnd[w].id] = UpdateBackup(@, nb)]
          /\ hnd' = [hnd EXCEPT ![w].pc = "dumping", ![w].backup = nb]
    /\ UNCHANGED <<coreVars, jobBackup, apiUpd>>

\* the rest of processBackupJob.  outcome "failed": pg_dump or Stat fails, status
\* failed and end_time are written and the error returned; "completed": status
\* completed and end_time are written.  (The returns on a failing repository
\* call, instance lookup or MkdirAll write nothing more and are left out.)
BackupDump(w, outcome) ==
    /\ hnd[w].pc = "dumping"
    /\ LET nb == [hnd[w].backup EXCEPT !.status = outcome, !.end_time = TRUE]
       IN /\ backups' = [backups EXCEPT ![hnd[w].id] = UpdateBackup(@, nb)]
          /\ hnd' = [hnd EXCEPT ![w].pc = "returned", ![w].backup = nb,
                                 ![w].ok = (outcome = BackupStatusCompleted),
                                 ![w].err = IF outcome = BackupStatusCompleted
                                            THEN "none" ELSE "dump"]
    /\ UNCHANGED <<coreVars, jobBackup, apiUpd>>

\* processBackupJob has returned: the end of processJob (as WorkerFinish, the
\* error being the handler's)
BackupJobFinish(w) ==
    /\ wrk[w].pc = "working"
    /\ hnd[w].pc = "returned"
    /\ LET old == wrk[w].job[1]
           job == [old EXCEPT !.retry_count = IF hnd[w].ok THEN @ ELSE @ + 1]
       IN rows' = UpdateJobStatus(job, DispatchStatus(hnd[w].ok, job.retry_count, job.max_retries))
    /\ wrk' = [wrk EXCEPT ![w] = [pc |-> "idle", job |-> <<>>]]
    /\ hnd' = [hnd EXCEPT ![w] = NoHandler]
    /\ UNCHANGED <<schema, now, chan, ldr, claimsNet, loaderPushes, crashes,
                   backups, jobBackup, apiUpd>>

\* state the backup code leaves alone
notBackup == <<lifeVars, schedVars, cleanupVars, orderVars, cadVars,
    restoreVars, dumpVars>>

BackupNext ==
    \/ \E q \in Queues, pr \in Priorities, inserted \in BOOLEAN :
          CreateBackupJob(q, pr, inserted) /\ UNCHANGED notBackup
    \/ \E b \in BackupIds : CreateBackupJobUpdate(b) /\ UNCHANGED notBackup
    \/ \E q \in Queues, pr \in Priorities, inserted \in BOOLEAN :
          AddBackupJob(q, pr, inserted) /\ UNCHANGED notBackup
    \/ \E q \in Queues : LoaderTick(q) /\ UNCHANGED extVars
    \/ \E q \in Queues : LoaderClaim(q, FALSE) /\ UNCHANGED extVars
    \/ \E q \in Queues : LoaderPush(q) /\ UNCHANGED extVars
    \/ \E w \in Workers : WorkerReceive(w) /\ UNCHANGED extVars
    \/ \E w \in Workers : BackupFetch(w) /\ UNCHANGED notBackup
    \/ \E w \in Workers : BackupMarkInProgress(w) /\ UNCHANGED notBackup
    \/ \E w \in Workers, outcome \in {BackupStatusCompleted, BackupStatusFailed} :
          BackupDump(w, outcome) /\ UNCHANGED notBackup
    \/ \E w \in Workers : BackupJobFinish(w) /\ UNCHANGED notBackup

BackupSpec == BackupInit /\ [][BackupNext]_vars

(* -------------------------- handler errors --------------------------- *)
\* processBackupJob with the returns that BackupSpec leaves out: the backup row
\* or the instance deleted under the job, MkdirAll failing.  No loader runs
\* here, so every job is delivered once, by AddJob's send.

\* what can fail between the Update to in_progress and pg_dump: GetByID of the
\* instance (the row is gone), MkdirAll
AbortCauses == {"instance", "tempdir"}

\* BackupRepository.Delete, DeleteOldBackups, or the cascade of an instance's
\* deletion: the row is gone and its id is not used again
DeleteBackup(b) ==
    /\ backups[b].status \notin {"absent", "deleted"}
    /\ backups' = [backups EXCEPT ![b] = [AbsentBackup EXCEPT !.status = "deleted"]]
    /\ UNCHANGED <<coreVars, jobBackup, hnd, apiUpd>>

\* the handler returns the error of the instance lookup or of MkdirAll; it
\* writes nothing
BackupAbort(w, cause) ==
    /\ hnd[w].pc = "dumping"
    /\ hnd' = [hnd EXCEPT ![w].pc = "returned", ![w].ok = FALSE, ![w].err = cause]
    /\ UNCHANGED <<coreVars, backups, jobBackup, apiUpd>>

HandlerNext ==
    \/ \E q \in Queues, pr \in Priorities, inserted \in BOOLEAN :
          CreateBackupJob(q, pr, inserted) /\ UNCHANGED notBackup
    \/ \E b \in BackupIds : CreateBackupJobUpdate(b) /\ UNCHANGED notBackup
    \/ \E b \in BackupIds : DeleteBackup(b) /\ UNCHANGED notBackup
    \/ \E w \in Workers : WorkerReceive(w) /\ UNCHANGED extVars
    \/ \E w \in Workers : BackupFetch(w) /\ UNCHANGED notBackup
    \/ \E w \in Workers : BackupMarkInProgress(w) /\ UNCHANGED notBackup
    \/ \E w \in Workers, cause \in AbortCauses : BackupAbort(w, cause) /\ UNCHANGED notBackup
    \/ \E w \in Workers, outcome \in {BackupStatusCompleted, BackupStatusFailed} :
          BackupDump(w, outcome) /\ UNCHANGED notBackup
    \/ \E w \in Workers : BackupJobFinish(w) /\ UNCHANGED notBackup

HandlerSpec == BackupInit /\ [][HandlerNext]_vars

(* ------------------------------ scheduler ----------------------------- *)
\* One cron function of the scheduler: GetEnabled, then for every instance and
\* every database of it the loop body (Create, AddJob, Update), which is the code
\* of CreateBackupJob with priority 7.  The SELECT is one step and every loop
\* iteration is one step; the admin surface changes the enabled flag in between.
\* Loaders and workers are left out: the rows stay as the scheduler wrote them.

SchedulerPriority == 7

\* the queue of the process that hosts the scheduler
SchedQueue == 1

\* ORDER BY name
InstanceOrder == <<"A", "B">>

\* values of postgresql_instances.databases
DbLists == {<<>>, <<"d1">>, <<"d1", "d2">>}

IsEnabled(i) == enabled[i]

\* GetEnabled: SELECT ... WHERE enabled = true ORDER BY name
GetEnabledAll == InstanceOrder
GetEnabled == SelectSeq(InstanceOrder, IsEnabled)

\* the databases the loop runs over for instance i: instance.Databases, or
\* "postgres" when there are none
SchedDatabases(i) == IF instDbs[i] = <<>> THEN <<"postgres">> ELSE instDbs[i]

\* what persistJob stores of a job's payload: postgres_id, database_name and
\* backup_id go to columns of their own (backup_id is jobBackup), the payload
\* column is NULL, so the row holds no backup_type
persistJob(payload) == [payload EXCEPT !.backup_type = ""]

\* the (instance, database) pairs in the order of the two nested loops
RECURSIVE LoopPairs(_)
LoopPairs(insts) ==
    IF insts = <<>> THEN <<>>
    ELSE [k \in 1..Len(SchedDatabases(Head(insts))) |->
             <<Head(insts), SchedDatabases(Head(insts))[k]>>]
         \o LoopPairs(Tail(insts))

\* the worker process with its scheduler, the registry holding any instances
SchedInit ==
    /\ schema = SchemaMigration
    /\ now = 0
    /\ rows = [j \in JobIds |-> AbsentRow]
    /\ chan = [q \in Queues |-> <<>>]
    /\ ldr = [q \in Queues |-> [pc |-> "wait", batch |-> <<>>]]
    /\ wrk = [w \in Workers |-> [pc |-> "idle", job |-> <<>>]]
    /\ claimsNet = [j \in JobIds |-> 0]
    /\ loaderPushes = [j \in JobIds |-> 0]
    /\ crashes = 0
    /\ QueuesStarted
    /\ NoBackups
    /\ instDbs \in [Instances -> DbLists]
    /\ enabled \in [Instances -> BOOLEAN]
    /\ sched = SchedIdle
    /\ backupMeta = [b \in BackupIds |-> NoMeta]
    /\ jobMeta = [j \in JobIds |-> NoMeta]
    /\ NoCleanup
    /\ NoTickLog
    /\ NoCadence
    /\ NoRestore
    /\ NoDump

\* the admin surface sets the enabled flag of an instance
SetEnabled(i, v) ==
    /\ enabled[i] # v
    /\ enabled' = [enabled EXCEPT ![i] = v]
    /\ UNCHANGED <<coreVars, backupVars, instDbs, sched, backupMeta, jobMeta>>

\* the cron function of cadence c starts: GetEnabled
SchedTick(c) ==
    /\ sched.pc \in {"idle", "done"}
    /\ sched' = [pc |-> "loop", cadence |-> c, todo |-> LoopPairs(GetEnabled),
                 enabledAt |-> enabled, created |-> {},
                 backupsBefore |-> BackupIds \ FreeBackupIds,
                 jobsBefore |-> JobIds \ FreeIds, failed |-> FALSE]
    /\ UNCHANGED <<coreVars, backupVars, instDbs, enabled, backupMeta, jobMeta>>

\* one iteration of the inner loop: Create the pending backup, AddJob the job of
\* priority 7 and 3 retries that carries its id; inserted = FALSE is the job's
\* INSERT failing
SchedCreate(inserted) ==
    /\ sched.pc = "loop"
    /\ sched.todo # <<>>
    /\ FreeBackupIds # {}
    /\ FreeIds # {}
    /\ LET pair == Head(sched.todo)
           b == CHOOSE k \in FreeBackupIds : \A m \in FreeBackupIds : k <= m
           j == CHOOSE k \in FreeIds : \A m \in FreeIds : k <= m
           meta == [inst |-> pair[1], db |-> pair[2], type |-> "backup",
                    backup_type |-> sched.cadence,
                    tick_enabled |-> sched.enabledAt[pair[1]]]
       IN /\ CreateBackupJob(SchedQueue, SchedulerPriority, inserted)
          /\ backupMeta' = [backupMeta EXCEPT ![b] = [meta EXCEPT !.type = ""]]
          /\ jobMeta' = IF inserted THEN [jobMeta EXCEPT ![j] = persistJob(meta)]
                         ELSE jobMeta
          /\ sched' = [sched EXCEPT
                         !.todo = Tail(@),
                         !.created = @ \cup {[pair |-> pair, b |-> b,
                                              j |-> IF inserted THEN j ELSE 0,
                                              payload |-> meta]},
                         !.failed = @ \/ ~inserted]
    /\ UNCHANGED <<instDbs, enabled>>

\* the loops are through: the cron function returns
SchedDone ==
    /\ sched.pc = "loop"
    /\ sched.todo = <<>>
    /\ sched' = [sched EXCEPT !.pc = "done"]
    /\ UNCHANGED <<coreVars, backupVars, instDbs, enabled, backupMeta, jobMeta>>

\* what the scheduler leaves alone besides job and backup rows
notSched == <<lifeVars, cleanupVars, orderVars, cadVars,
    restoreVars, dumpVars>>

SchedNext ==
    \/ \E i \in Instances, v \in BOOLEAN : SetEnabled(i, v) /\ UNCHANGED notSched
    \/ \E c \in Cadences : SchedTick(c) /\ UNCHANGED notSched
    \/ \E inserted \in BOOLEAN : SchedCreate(inserted) /\ UNCHANGED notSched
    \/ SchedDone /\ UNCHANGED notSched
    \/ \E b \in BackupIds : CreateBackupJobUpdate(b) /\ UNCHANGED <<notSched, schedVars>>

SchedSpec == SchedInit /\ [][SchedNext]_vars

(* ------------------------------- cleanup ------------------------------ *)
\* The objects under one prefix backups/{instance}/{cadence}/, the uploads that
\* add to it, the worker's cleanup job and S3Client.CleanupOldBackups as
\* BackupService.cleanupOldBackups calls it with the cadence's retention count.
\* Listing is one step, every DeleteFile is one step.

MaxUploadTime == 4
TicksPerMonth == 2
ListPageSize == 3
MaxKeep == 2

\* the databases of the instance in the order of their names
DbRank(d) == IF d = "d1" THEN 1 ELSE 2

\* an uploaded file: database and time stamp of its file name
ObjectKeys == [db : DbNames, ts : 0..(MaxUploadTime - 1)]

\* GenerateS3Key: {year}/{month}/{instance}_{database}_{cadence}_{timestamp}.sql
\* under the prefix; keys compare by month, then database name, then time stamp
KeyParts(k) == <<k.ts \div TicksPerMonth, DbRank(k.db), k.ts>>

KeyLess(a, b) ==
    LET x == KeyParts(a)
        y == KeyParts(b)
    IN \/ x[1] < y[1]
       \/ x[1] = y[1] /\ x[2] < y[2]
       \/ x[1] = y[1] /\ x[2] = y[2] /\ x[3] < y[3]

\* the keys of S in ascending order, as ListObjectsV2 returns them
RECURSIVE SortedKeys(_)
SortedKeys(S) ==
    IF S = {} THEN <<>>
    ELSE LET least == CHOOSE k \in S : \A m \in S \ {k} : KeyLess(k, m)
         IN <<least>> \o SortedKeys(S \ {least})

\* ListFiles: one ListObjectsV2 call, which returns the first page only
ListFiles ==
    LET all == SortedKeys(objects)
    IN IF Len(all) <= ListPageSize THEN all ELSE SubSeq(all, 1, ListPageSize)

\* objectsToDelete := objects[:len(objects)-retentionCount]
ObjectsToDelete(listed, keep) == SubSeq(listed, 1, Len(listed) - keep)

CleanupInit ==
    /\ schema = SchemaMigration
    /\ now = 0
    /\ rows = [j \in JobIds |-> AbsentRow]
    /\ chan = [q \in Queues |-> <<>>]
    /\ ldr = [q \in Queues |-> [pc |-> "wait", batch |-> <<>>]]
    /\ wrk = [w \in Workers |-> [pc |-> "idle", job |-> <<>>]]
    /\ claimsNet = [j \in JobIds |-> 0]
    /\ loaderPushes = [j \in JobIds |-> 0]
    /\ crashes = 0
    /\ QueuesStarted
    /\ NoBackups
    /\ NoScheduler
    /\ objects = {}
    /\ uploadTime = 0
    /\ retention \in 0..MaxKeep
    /\ clean = CleanIdle
    /\ NoTickLog
    /\ NoCadence
    /\ NoRestore
    /\ NoDump

\* a dump of database d is uploaded under the prefix
Upload(d) ==
    /\ uploadTime < MaxUploadTime
    /\ objects' = objects \cup {[db |-> d, ts |-> uploadTime]}
    /\ uploadTime' = uploadTime + 1
    /\ clean' = [clean EXCEPT
                   !.disturbed = @ \/ clean.pc \in {"deleting", "done"},
                   !.uploadedSince = @ \/ clean.job = "completed"]
    /\ UNCHANGED retention

\* Worker.processCleanupJob: reads the payload, sleeps, returns nil
ProcessCleanupJob ==
    /\ clean.job = "none"
    /\ clean' = [clean EXCEPT !.job = "completed"]
    /\ UNCHANGED <<objects, uploadTime, retention>>

\* CleanupOldBackups up to the loop: ListFiles, the length test, the slice
CleanupList(listOk) ==
    /\ clean.pc \in {"idle", "done"}
    /\ LET listed == IF listOk THEN ListFiles ELSE <<>>
           todo == IF Len(listed) <= retention THEN <<>>
                   ELSE ObjectsToDelete(listed, retention)
       IN clean' = [clean EXCEPT
                      !.pc = IF todo = <<>> THEN "done" ELSE "deleting",
                      !.err = ~listOk,
                      !.before = objects,
                      !.listed = listed,
                      !.todo = todo,
                      !.attempted = {},
                      !.failures = 0,
                      !.disturbed = FALSE]
    /\ UNCHANGED <<objects, uploadTime, retention>>

\* the loop leaving CleanupOldBackups with the error of the first DeleteFile
\* that fails
CleanupDeleteAborting(deleted) ==
    /\ clean.pc = "deleting"
    /\ clean.todo # <<>>
    /\ objects' = IF deleted THEN objects \ {Head(clean.todo)} ELSE objects
    /\ clean' = IF deleted
                THEN [clean EXCEPT !.todo = Tail(@),
                                   !.attempted = @ \cup {Head(clean.todo)}]
                ELSE [clean EXCEPT !.pc = "done", !.todo = <<>>, !.err = TRUE,
                                   !.attempted = @ \cup {Head(clean.todo)},
                                   !.failures = @ + 1]
    /\ UNCHANGED <<uploadTime, retention>>

\* one iteration of the loop: DeleteFile, whose error is only logged
CleanupDelete(deleted) ==
    /\ clean.pc = "deleting"
    /\ clean.todo # <<>>
    /\ objects' = IF deleted THEN objects \ {Head(clean.todo)} ELSE objects
    /\ clean' = [clean EXCEPT
                   !.todo = Tail(@),
                   !.attempted = @ \cup {Head(clean.todo)},
                   !.failures = IF deleted THEN @ ELSE @ + 1]
    /\ UNCHANGED <<uploadTime, retention>>

\* the loop is through: CleanupOldBackups returns nil
CleanupReturn ==
    /\ clean.pc = "deleting"
    /\ clean.todo = <<>>
    /\ clean' = [clean EXCEPT !.pc = "done"]
    /\ UNCHANGED <<objects, uploadTime, retention>>

\* what cleanup leaves alone
notCleanup == <<coreVars, lifeVars, backupVars, schedVars, orderVars, cadVars,
    restoreVars, dumpVars>>

CleanupNext ==
    \/ \E d \in DbNames : Upload(d) /\ UNCHANGED notCleanup
    \/ ProcessCleanupJob /\ UNCHANGED notCleanup
    \/ \E listOk \in BOOLEAN : CleanupList(listOk) /\ UNCHANGED notCleanup
    \/ \E deleted \in BOOLEAN : CleanupDelete(deleted) /\ UNCHANGED notCleanup
    \/ CleanupReturn /\ UNCHANGED notCleanup

CleanupSpec == CleanupInit /\ [][CleanupNext]_vars

(* ---------------------------- loader order ---------------------------- *)
\* The loader's tick with jobs of different priorities and a LIMIT that lets a
\* batch hold more than one row; the history tickLog keeps, per loader, the rows
\* eligible when the query ran, its result and the jobs sent since.  Handlers
\* succeed here and no process crashes.

OrderLimit == 2
OrderPriorities == {5, 7}

OrderInit ==
    /\ schema = SchemaMigration
    /\ now = 0
    /\ rows = [j \in JobIds |-> AbsentRow]
    /\ chan = [q \in Queues |-> <<>>]
    /\ ldr = [q \in Queues |-> [pc |-> "wait", batch |-> <<>>]]
    /\ wrk = [w \in Workers |-> [pc |-> "idle", job |-> <<>>]]
    /\ claimsNet = [j \in JobIds |-> 0]
    /\ loaderPushes = [j \in JobIds |-> 0]
    /\ crashes = 0
    /\ QueuesStarted
    /\ NoBackups
    /\ NoScheduler
    /\ NoCleanup
    /\ NoTickLog
    /\ NoCadence
    /\ NoRestore
    /\ NoDump

\* the ids of a sequence of jobs
JobIdsOf(batch) == [i \in 1..Len(batch) |-> batch[i].id]

\* LoaderTickLimit, recorded
OrderTick(q, limit) ==
    /\ LoaderTickLimit(q, limit)
    /\ tickLog' = [tickLog EXCEPT ![q] =
                     [limit |-> limit, eligible |-> EligibleIds,
                      batch |-> JobIdsOf(SelectFirst(limit)), pushed |-> <<>>]]

\* LoaderPush, recorded
OrderPush(q) ==
    /\ LoaderPush(q)
    /\ tickLog' = [tickLog EXCEPT ![q].pushed =
                     IF Len(chan[q]) < ChanCap THEN Append(@, Head(ldr[q].batch).id) ELSE @]

\* what the loader order leaves alone
notOrder == <<lifeVars, backupVars, schedVars, cleanupVars, cadVars,
    restoreVars, dumpVars>>

OrderNext ==
    \/ \E q \in Queues, pr \in OrderPriorities :
          AddJob(q, pr, DefaultMaxRetries, TRUE) /\ UNCHANGED extVars
    \/ \E q \in Queues, limit \in 1..OrderLimit : OrderTick(q, limit) /\ UNCHANGED notOrder
    \/ \E q \in Queues : LoaderClaim(q, FALSE) /\ UNCHANGED extVars
    \/ \E q \in Queues : OrderPush(q) /\ UNCHANGED notOrder
    \/ \E w \in Workers : WorkerReceive(w) /\ UNCHANGED extVars
    \/ \E w \in Workers : WorkerFinish(w, TRUE) /\ UNCHANGED extVars

OrderSpec == OrderInit /\ [][OrderNext]_vars

(* ------------------------------- helpers ------------------------------ *)

\* workers whose currentJob is job j
HoldersOf(j) == {w \in Workers : wrk[w].pc = "working" /\ wrk[w].job[1].id = j}

\* the job the loader of q is scanning
ScanningId(q) == Head(ldr[q].batch).id

\* job j sits in the channel of some queue
InChannel(j) == \E q \in Queues : \E i \in 1..Len(chan[q]) : chan[q][i].id = j

(* ================================ claims ============================== *)

\* C1: no job id is the current job of two workers at the same time.
AtMostOneExecution == \A j \in JobIds : Cardinality(HoldersOf(j)) <= 1

\* C2: every row in status running is the current job of exactly one worker.
RunningHasExactlyOneWorker ==
    \A j \in JobIds : rows[j].status = "running" => Cardinality(HoldersOf(j)) = 1

\* C3: of the loaders racing for one pending row exactly one wins the claim and
\* only the winner sends the job: no two loaders hold a claim on the same job,
\* the successful claims not rolled back never exceed one per job, and a job is
\* sent by loaders at most once, by a loader whose claim stands.
ClaimRaceHasOneWinner ==
    /\ \A q1, q2 \in Queues :
          (q1 # q2 /\ ldr[q1].pc = "push" /\ ldr[q2].pc = "push")
             => ScanningId(q1) # ScanningId(q2)
    /\ \A j \in JobIds : claimsNet[j] <= 1 /\ loaderPushes[j] <= claimsNet[j]
    /\ \A q \in Queues : ldr[q].pc = "push" =>
          claimsNet[ScanningId(q)] = 1 /\ loaderPushes[ScanningId(q)] = 0

\* C3 witness: two loaders selected the same row, one has claimed it and the
\* other is about to run its claim update.
ClaimRaceWitness ==
    \E q1, q2 \in Queues :
       /\ q1 # q2
       /\ ldr[q1].pc = "push"
       /\ ldr[q2].pc = "claim"
       /\ ScanningId(q1) = ScanningId(q2)

\* C4: every job in a local channel, or taken from one by a worker, has a row in
\* the jobs table; an AddJob whose insert failed sent nothing.
PersistBeforeEnqueue ==
    /\ \A q \in Queues : \A i \in 1..Len(chan[q]) : rows[chan[q][i].id].status # "absent"
    /\ \A w \in Workers : wrk[w].pc = "working" => rows[wrk[w].job[1].id].status # "absent"

\* C4 witness: a job handed to a channel by AddJob (no loader has claimed it),
\* its row pending.
PersistBeforeEnqueueWitness ==
    \E q \in Queues :
       /\ chan[q] # <<>>
       /\ rows[Head(chan[q]).id].status = "pending"
       /\ claimsNet[Head(chan[q]).id] = 0

\* C8: no loader's claim update succeeds on a row that is running with a
\* started_at inside the staleness interval.
FreshRunningNeverClaimed ==
    [][\A q \in Queues :
          (ldr[q].pc = "claim" /\ ldr'[q].pc = "push")
             => ~(rows[ScanningId(q)].status = "running"
                  /\ ~IsStale(rows[ScanningId(q)], now))]_vars

\* C8 witness: a loader is about to run its claim update on a row that is
\* running and not stale.
FreshRunningWitness ==
    \E q \in Queues :
       /\ ldr[q].pc = "claim"
       /\ rows[ScanningId(q)].status = "running"
       /\ ~IsStale(rows[ScanningId(q)], now)

\* C9: when the handler has returned, the job row carries completed on success;
\* on error retry_count is one more and the status is retrying if the new
\* count is below max_retries, failed otherwise.
DispatcherOutcome ==
    [][\A w \in Workers, ok \in BOOLEAN :
          WorkerFinish(w, ok) =>
             LET job == wrk[w].job[1]
             IN IF ok
                THEN /\ rows'[job.id].status = "completed"
                     /\ rows'[job.id].retry_count = job.retry_count
                ELSE /\ rows'[job.id].retry_count = job.retry_count + 1
                     /\ rows'[job.id].status =
                           IF job.retry_count + 1 < job.max_retries
                           THEN "retrying" ELSE "failed"]_vars

PendingEventuallyClaimed ==
    \A j \in JobIds : (rows[j].status = "pending") ~> (rows[j].status # "pending")

\* C6: a row set to retrying is claimed again: it does not stay retrying.
RetryingEventuallyRunning ==
    \A j \in JobIds :
       (rows[j].status = "retrying")
       ~> (rows[j].status \in {"running", "completed", "failed"})

\* C7: a row left running by a worker that died, its started_at stale, is
\* claimed again (a new started_at) and run to a terminal state: it does not
\* stay running with the stale started_at.
StaleRunningEventuallyTerminal ==
    \A j \in JobIds :
       (rows[j].status = "running" /\ IsStale(rows[j], now) /\ HoldersOf(j) = {}
          /\ crashes > 0)
       ~> (rows[j].status \in {"completed", "failed"}
             \/ (rows[j].status = "running" /\ ~IsStale(rows[j], now)))

AddAfterStopShutsDown ==
    \A j \in JobIds :
       (adds[j].pc = "done" /\ adds[j].stopSeen) => adds[j].ret = ErrShuttingDown

\* C13: a backup row's status is completed or failed exactly when its end_time
\* is set.
BackupEndTimeIffTerminal ==
    \A b \in BackupIds :
       (backups[b].status \in {BackupStatusCompleted, BackupStatusFailed})
          <=> backups[b].end_time

\* C14: a backup row that has left pending never returns to pending, and one
\* that is completed stays completed.
BackupStatusMonotonic ==
    [][\A b \in BackupIds :
          /\ (backups[b].status \notin {"absent", BackupStatusPending})
                => backups'[b].status # BackupStatusPending
          /\ (backups[b].status = BackupStatusCompleted)
                => backups'[b].status = BackupStatusCompleted]_vars

\* C15: a backup row's s3_key is set exactly when its status is completed.
BackupKeyIffCompleted ==
    \A b \in BackupIds :
       backups[b].s3_key <=> (backups[b].status = BackupStatusCompleted)

\* C16: no backup row was created by a job whose payload carries a backup id:
\* a row created by a worker names in job_id a job without backup id, and the
\* other rows are the ones the API and the scheduler created, one per job that
\* carries a backup id or whose insert failed.
NoBackupCreatedByIdJob ==
    /\ \A b \in BackupIds :
          (backups[b].status # "absent" /\ backups[b].job_id # 0)
             => jobBackup[backups[b].job_id] = 0
    /\ \A j \in JobIds :
          jobBackup[j] # 0 =>
             /\ backups[jobBackup[j]].status # "absent"
             /\ backups[jobBackup[j]].job_id = 0
             /\ \A k \in JobIds : jobBackup[k] = jobBackup[j] => k = j

\* C16 witness: a job that carries a backup id has been sent by AddJob and again
\* by a loader, its backup has already been worked on, and a worker has fetched
\* that backup for the job once more.
SecondDeliveryWitness ==
    \E w \in Workers :
       /\ wrk[w].pc = "working"
       /\ hnd[w].pc = "loaded"
       /\ jobBackup[wrk[w].job[1].id] # 0
       /\ loaderPushes[wrk[w].job[1].id] >= 1
       /\ hnd[w].backup.status \in {BackupStatusCompleted, BackupStatusFailed}

\* C17: every backup row and every job row the scheduler created belongs to an
\* instance whose enabled flag was true when the tick ran its query.
NoRowsForDisabled ==
    /\ \A b \in BackupIds : backups[b].status # "absent" => backupMeta[b].tick_enabled
    /\ \A j \in JobIds : rows[j].status # "absent" => jobMeta[j].tick_enabled

\* C17 witness: a tick has run to its end while an instance that has databases
\* was disabled, and it created rows for another instance.
DisabledSkippedWitness ==
    /\ sched.pc = "done"
    /\ sched.created # {}
    /\ \E i \in Instances : ~sched.enabledAt[i] /\ instDbs[i] # <<>>

\* the (instance, database) pairs of the instances enabled in en
ExpectedPairs(en) ==
    {p \in Instances \X (DbNames \cup {"postgres"}) :
        /\ en[p[1]]
        /\ \/ instDbs[p[1]] = <<>> /\ p[2] = "postgres"
           \/ \E k \in 1..Len(instDbs[p[1]]) : instDbs[p[1]][k] = p[2]}

\* C18: a tick of cadence c that ran to its end without a database error has
\* created, for every pair of an enabled instance and one of its databases,
\* exactly one backup row and one job row: the new rows are as many as the
\* pairs, the backup is pending with the pair's instance, database and cadence
\* c, the job row is a pending backup job of priority 7 and max_retries 3 with
\* the pair's instance and database, cadence c and the id of that backup.
FanOutExact ==
    (sched.pc = "done" /\ ~sched.failed) =>
       LET exp == ExpectedPairs(sched.enabledAt)
           made == sched.created
       IN /\ {r.pair : r \in made} = exp
          /\ Cardinality(made) = Cardinality(exp)
          /\ (BackupIds \ FreeBackupIds) \ sched.backupsBefore = {r.b : r \in made}
          /\ (JobIds \ FreeIds) \ sched.jobsBefore = {r.j : r \in made}
          /\ Cardinality({r.b : r \in made}) = Cardinality(exp)
          /\ Cardinality({r.j : r \in made}) = Cardinality(exp)
          /\ \A r \in made :
                /\ backups[r.b].status = BackupStatusPending
                /\ backupMeta[r.b].inst = r.pair[1]
                /\ backupMeta[r.b].db = r.pair[2]
                /\ backupMeta[r.b].backup_type = sched.cadence
                /\ rows[r.j].status = JobStatusPending
                /\ rows[r.j].priority = 7
                /\ rows[r.j].max_retries = 3
                /\ jobMeta[r.j].type = "backup"
                /\ jobMeta[r.j].inst = r.pair[1]
                /\ jobMeta[r.j].db = r.pair[2]
                /\ jobMeta[r.j].backup_type = sched.cadence
                /\ jobBackup[r.j] = r.b

\* C19: once a cleanup job for the prefix has completed, and as long as nothing
\* has been uploaded since, the prefix holds at most retention objects.
CleanupJobBoundsObjects ==
    (clean.job = "completed" /\ ~clean.uploadedSince) =>
        Cardinality(objects) <= retention

\* C20: a cleanup that found n > keep objects under the prefix, with no failed
\* deletion and no upload meanwhile, has deleted exactly the n - keep objects
\* with the smallest keys and left exactly the keep most recent ones.
CleanupKeepsMostRecent ==
    (/\ clean.pc = "done"
     /\ ~clean.err
     /\ ~clean.disturbed
     /\ clean.failures = 0
     /\ Cardinality(clean.before) > retention) =>
        LET gone == clean.before \ objects
        IN /\ Cardinality(gone) = Cardinality(clean.before) - retention
           /\ \A g \in gone, k \in objects : KeyLess(g, k)
           /\ Cardinality(objects) = retention
           /\ \A g \in gone, k \in objects : g.ts < k.ts

\* C21: a cleanup without failed deletion, listing error or upload meanwhile
\* leaves the prefix as it was when it found at most retention objects, and
\* leaves it empty when retention is 0.
CleanupNoOpOrAll ==
    (/\ clean.pc = "done"
     /\ ~clean.err
     /\ ~clean.disturbed
     /\ clean.failures = 0) =>
        /\ Cardinality(clean.before) <= retention => objects = clean.before
        /\ retention = 0 => objects = {}

\* C22: the status of a worker moves only idle to working and working to idle,
\* and once Stop has set it to stopped it stays stopped (the workers that Start
\* makes anew apart).
WorkerStatusLifecycle ==
    [][\A w \in Workers :
          /\ (wstatus[w] = "stopped" /\ ~(\E q \in Queues : Start(q)))
                => wstatus'[w] = "stopped"
          /\ wstatus[w] = "idle" => wstatus'[w] \in {"idle", "working", "stopped"}
          /\ wstatus[w] = "working" => wstatus'[w] \in {"working", "idle", "stopped"}]_vars

\* C23: when Stop closes the channel and returns, no worker of the queue is in
\* the middle of a job, and no AddJob sends on the closed channel.
ShutdownOrdering ==
    [][/\ \A q \in Queues :
             (stopPc[q] = "closing" /\ closed'[q])
                => \A w \in Workers : w[1] = q => wrk[w].pc # "working"
       /\ \A j \in JobIds : adds'[j].ret # "panic"]_vars

\* C24: when the handler returned because the backup row or the instance of the
\* job does not exist, the dispatcher writes status failed on the job row.
NotFoundFailsAtOnce ==
    [][\A w \in Workers :
          (BackupJobFinish(w) /\ hnd[w].err \in {"backup", "instance"})
             => rows'[wrk[w].job[1].id].status = JobStatusFailed]_vars

\* C25: when the handler returned an error after it had written in_progress,
\* the backup row is failed with end_time when the dispatcher writes the job row.
ErrorLeavesBackupFailed ==
    [][\A w \in Workers :
          (/\ BackupJobFinish(w)
           /\ ~hnd[w].ok
           /\ hnd[w].backup.status \in {BackupStatusInProgress, BackupStatusFailed})
             => /\ backups[hnd[w].id].status = BackupStatusFailed
                /\ backups[hnd[w].id].end_time]_vars

\* C26: a loader that has claimed a row and finds its channel full sets the row
\* back to pending with started_at NULL and sends nothing; and, no process
\* having crashed, every row in status running is in a channel, held by a
\* worker, or about to be sent or rolled back by the loader that claimed it.
LoaderRollback ==
    /\ [][\A q \in Queues :
             (ldr[q].pc = "push" /\ Len(chan[q]) >= ChanCap /\ LoaderPush(q))
                => /\ rows'[ScanningId(q)].status = JobStatusPending
                   /\ rows'[ScanningId(q)].started_at = {}
                   /\ chan' = chan]_vars
    /\ [](crashes = 0 =>
             \A j \in JobIds : rows[j].status = JobStatusRunning =>
                \/ InChannel(j)
                \/ HoldersOf(j) # {}
                \/ \E q \in Queues : ldr[q].pc = "push" /\ ScanningId(q) = j)

\* row a comes before row b in (priority descending, created_at ascending)
ComesFirst(a, b) ==
    \/ rows[a].priority > rows[b].priority
    \/ rows[a].priority = rows[b].priority /\ rows[a].created_at <= rows[b].created_at

\* C27: the result of a loader's query holds at most LIMIT rows, all eligible
\* when it ran, none of the eligible rows left out comes before one taken, and
\* as many as LIMIT allows; the result is in (priority descending, created_at
\* ascending) order, and the jobs the loader has sent since are a part of it in
\* that order: no job of higher priority is sent after one of lower priority.
LoaderOrder ==
    \A q \in Queues :
       LET log == tickLog[q]
           taken == {log.batch[i] : i \in 1..Len(log.batch)}
       IN /\ Len(log.batch) <= log.limit
          /\ taken \subseteq log.eligible
          /\ Cardinality(taken) = Len(log.batch)
          /\ Len(log.batch) = Min(log.limit, Cardinality(log.eligible))
          /\ \A a \in taken, b \in log.eligible \ taken : ComesFirst(a, b)
          /\ \A i, k \in 1..Len(log.batch) : i < k => ComesFirst(log.batch[i], log.batch[k])
          /\ \A i, k \in 1..Len(log.pushed) :
                i < k => /\ ComesFirst(log.pushed[i], log.pushed[k])
                         /\ rows[log.pushed[i]].priority >= rows[log.pushed[k]].priority
                         /\ \E m, n \in 1..Len(log.batch) :
                               /\ m < n
                               /\ log.batch[m] = log.pushed[i]
                               /\ log.batch[n] = log.pushed[k]

\* C27 witness: a loader has sent two jobs in one tick, the first of higher
\* priority although it was created later.
LoaderOrderWitness ==
    \E q \in Queues :
       /\ Len(tickLog[q].pushed) = 2
       /\ rows[tickLog[q].pushed[1]].priority > rows[tickLog[q].pushed[2]].priority
       /\ rows[tickLog[q].pushed[1]].created_at > rows[tickLog[q].pushed[2]].created_at


\* worker w has resolved backup b for the job it holds, the job came from
\* AddJob's own send (so AddJob returned nil and the creator went on to its
\* Update), and that Update is not outstanding
ResolvedAfterUpdate(w, b) ==
    /\ wrk[w].pc = "working"
    /\ hnd[w].pc \in {"loaded", "dumping", "returned"}
    /\ hnd[w].err # "backup"
    /\ hnd[w].id = b
    /\ b \notin apiUpd
    /\ loaderPushes[wrk[w].job[1].id] = 0
    /\ backups[b].status \notin {"absent", "deleted"}

\* C29: once the creator of a Backup and its Job has run its follow-up Update
\* and a worker has resolved the Backup for the job, the stored Backup row
\* carries the id of that job.
BackupCarriesJobId ==
    \A w \in Workers, b \in BackupIds :
        ResolvedAfterUpdate(w, b) => backups[b].job_id = wrk[w].job[1].id


(* ------------------- the backup type of a job in memory ---------------- *)

\* A job in a channel is a Go value with a Payload map.  AddJob sends the value
\* its caller built; the loader sends a value built from the columns of the row.
\* chanType keeps Payload["backup_type"] of the jobs in chan, in the same order.

\* BackupType of a request: one cadence of the scheduler and "manual", the
\* type of a request made by hand and the one the loader writes
BackupTypes == {"hourly", "manual"}

\* the payload the loader builds from a scanned row: postgres_id, database_name
\* and backup_id from the columns, backup_type the constant "manual"
LoadedPayload(row) == [row EXCEPT !.backup_type = "manual"]

\* the queues of the worker processes, started, and an empty database
CadenceInit == BackupInit

\* a backup request of type c.  withBackup: CreateBackupJob (and the scheduler),
\* which Create the Backup and put its id in the payload; otherwise AddBackupJob
\* (CreateBulkBackupJobs), whose payload has no backup_id
CadCreate(q, pr, c, withBackup) ==
    /\ FreeIds # {}
    /\ LET j == CHOOSE k \in FreeIds : \A m \in FreeIds : k <= m
           meta == [inst |-> "A", db |-> "d1", type |-> "backup",
                    backup_type |-> c, tick_enabled |-> TRUE]
       IN /\ IF withBackup
             THEN /\ CreateBackupJob(q, pr, TRUE)
                  /\ LET b == CHOOSE k \in FreeBackupIds : \A m \in FreeBackupIds : k <= m
                     IN backupMeta' = [backupMeta EXCEPT ![b] = [meta EXCEPT !.type = ""]]
             ELSE /\ AddBackupJob(q, pr, TRUE)
                  /\ UNCHANGED backupMeta
          /\ jobMeta' = [jobMeta EXCEPT ![j] = persistJob(meta)]
          /\ madeType' = [madeType EXCEPT ![j] = c]
          /\ chanType' = IF Len(chan'[q]) > Len(chan[q])
                         THEN [chanType EXCEPT ![q] = Append(@, meta.backup_type)]
                         ELSE chanType
    /\ UNCHANGED <<instDbs, enabled, sched, wrkType, fileType>>

\* LoaderPush, the job sent carrying the payload built from the row
CadPush(q) ==
    /\ LoaderPush(q)
    /\ chanType' = IF Len(chan'[q]) > Len(chan[q])
                   THEN [chanType EXCEPT ![q] =
                           Append(@, LoadedPayload(jobMeta[Head(ldr[q].batch).id]).backup_type)]
                   ELSE chanType
    /\ UNCHANGED <<wrkType, fileType, madeType>>

\* WorkerReceive; processBackupJob reads backup_type from the payload
CadReceive(w) ==
    /\ WorkerReceive(w)
    /\ wrkType' = [wrkType EXCEPT ![w] = Head(chanType[w[1]])]
    /\ chanType' = [chanType EXCEPT ![w[1]] = Tail(@)]
    /\ UNCHANGED <<fileType, madeType>>

\* BackupFetch; a Backup the handler creates gets BackupType: backupType
CadFetch(w) ==
    /\ BackupFetch(w)
    /\ backupMeta' = IF PayloadBackupId(wrk[w].job[1].id) = 0
                     THEN [backupMeta EXCEPT ![hnd'[w].id] =
                             [jobMeta[wrk[w].job[1].id] EXCEPT
                                 !.type = "", !.backup_type = wrkType[w]]]
                     ELSE backupMeta
    /\ UNCHANGED <<instDbs, enabled, sched, jobMeta, cadVars>>

\* BackupMarkInProgress up to the file name, then pg_dump succeeding
CadDump(w) ==
    /\ BackupDump(w, BackupStatusCompleted)
    /\ fileType' = [fileType EXCEPT ![w] = wrkType[w]]
    /\ UNCHANGED <<chanType, wrkType, madeType>>

\* BackupJobFinish: processBackupJob and its locals are gone
CadFinish(w) ==
    /\ BackupJobFinish(w)
    /\ wrkType' = [wrkType EXCEPT ![w] = ""]
    /\ fileType' = [fileType EXCEPT ![w] = ""]
    /\ UNCHANGED <<chanType, madeType>>

\* state the delivery of a backup job leaves alone
notCadence == <<lifeVars, cleanupVars, orderVars,
    restoreVars, dumpVars>>

CadenceNext ==
    \/ \E q \in Queues, pr \in Priorities, c \in BackupTypes, withBackup \in BOOLEAN :
          CadCreate(q, pr, c, withBackup) /\ UNCHANGED notCadence
    \/ \E b \in BackupIds : CreateBackupJobUpdate(b) /\ UNCHANGED notBackup
    \/ \E q \in Queues : LoaderTick(q) /\ UNCHANGED extVars
    \/ \E q \in Queues : LoaderClaim(q, FALSE) /\ UNCHANGED extVars
    \/ \E q \in Queues : CadPush(q) /\ UNCHANGED <<notCadence, backupVars, schedVars>>
    \/ \E w \in Workers : CadReceive(w) /\ UNCHANGED <<notCadence, backupVars, schedVars>>
    \/ \E w \in Workers : CadFetch(w) /\ UNCHANGED notCadence
    \/ \E w \in Workers : BackupMarkInProgress(w) /\ UNCHANGED notBackup
    \/ \E w \in Workers : CadDump(w) /\ UNCHANGED <<notCadence, schedVars>>
    \/ \E w \in Workers : CadFinish(w) /\ UNCHANGED <<notCadence, schedVars>>

CadenceSpec == CadenceInit /\ [][CadenceNext]_vars

\* worker w is in processJob with job j
Handles(w, j) == wrk[w].pc = "working" /\ wrk[w].job[1].id = j

\* C28: a backup job created with backup type c is handled with c however it
\* reached the worker, and the file name and a Backup row the handler creates
\* carry c.
CadencePreserved ==
    /\ \A w \in Workers, j \in JobIds :
          Handles(w, j) =>
             /\ wrkType[w] = madeType[j]
             /\ fileType[w] \in {"", madeType[j]}
    /\ \A b \in BackupIds :
          (backups[b].status \notin {"absent", "deleted"} /\ backups[b].job_id # 0)
             => backupMeta[b].backup_type = madeType[backups[b].job_id]


(* ------------------- what follows a completed backup ------------------- *)

\* priority CreateCleanupJob gives a request without one, and MaxRetries of
\* AddCleanupJob
CleanupPriority == 3
CleanupMaxRetries == 2

\* RetentionPolicy holds a count for hourly, daily, weekly and monthly; a count
\* above zero is a configured retention
RetentionConfigured(c) == c # "manual" /\ retention > 0

\* the queues started, an empty database and some RetentionPolicy
RetentionInit ==
    /\ schema = SchemaMigration
    /\ now = 0
    /\ rows = [j \in JobIds |-> AbsentRow]
    /\ chan = [q \in Queues |-> <<>>]
    /\ ldr = [q \in Queues |-> [pc |-> "wait", batch |-> <<>>]]
    /\ wrk = [w \in Workers |-> [pc |-> "idle", job |-> <<>>]]
    /\ claimsNet = [j \in JobIds |-> 0]
    /\ loaderPushes = [j \in JobIds |-> 0]
    /\ crashes = 0
    /\ QueuesStarted
    /\ NoBackups
    /\ NoScheduler
    /\ objects = {}
    /\ uploadTime = 0
    /\ retention \in 0..MaxKeep
    /\ clean = CleanIdle
    /\ NoTickLog
    /\ NoCadence
    /\ NoRestore
    /\ NoDump

\* CreateCleanupJob, AddCleanupJob: a cleanup job for (inst, c), made on request
AddCleanupJob(q, inst, c) ==
    /\ FreeIds # {}
    /\ LET j == CHOOSE k \in FreeIds : \A m \in FreeIds : k <= m
           meta == [inst |-> inst, db |-> "", type |-> "cleanup",
                    backup_type |-> c, tick_enabled |-> TRUE]
       IN /\ AddJob(q, CleanupPriority, CleanupMaxRetries, TRUE)
          /\ jobMeta' = [jobMeta EXCEPT ![j] = persistJob(meta)]
          /\ madeType' = [madeType EXCEPT ![j] = c]
          /\ chanType' = IF Len(chan'[q]) > Len(chan[q])
                         THEN [chanType EXCEPT ![q] = Append(@, meta.backup_type)]
                         ELSE chanType
    /\ UNCHANGED <<backupVars, instDbs, enabled, sched, backupMeta, wrkType, fileType>>

\* processJob's switch on job.Type
JobTypeOf(w) == jobMeta[wrk[w].job[1].id].type

\* processCleanupJob: reads the payload, sleeps, returns nil
CleanupJobHandler(w) ==
    /\ wrk[w].pc = "working"
    /\ hnd[w].pc = "none"
    /\ JobTypeOf(w) = "cleanup"
    /\ hnd' = [hnd EXCEPT ![w] = [NoHandler EXCEPT !.pc = "returned", !.ok = TRUE]]
    /\ UNCHANGED <<coreVars, backups, jobBackup, apiUpd>>

\* a worker's next step: receive, the handler of the job's type, the end of
\* processJob
RetentionWork(w) ==
    \/ CadReceive(w) /\ UNCHANGED <<notCadence, backupVars, schedVars>>
    \/ /\ wrk[w].pc = "working"
       /\ JobTypeOf(w) = "backup"
       /\ CadFetch(w)
       /\ UNCHANGED notCadence
    \/ BackupMarkInProgress(w) /\ UNCHANGED notBackup
    \/ CadDump(w) /\ UNCHANGED <<notCadence, schedVars>>
    \/ CleanupJobHandler(w) /\ UNCHANGED notBackup
    \/ CadFinish(w) /\ UNCHANGED <<notCadence, schedVars>>

\* requests for a backup leave an id for a cleanup job
RetentionNext ==
    \/ \E q \in Queues, pr \in Priorities, c \in BackupTypes, withBackup \in BOOLEAN :
          /\ Cardinality(FreeIds) > 1
          /\ CadCreate(q, pr, c, withBackup)
          /\ UNCHANGED notCadence
    \/ \E q \in Queues, i \in Instances, c \in BackupTypes :
          AddCleanupJob(q, i, c) /\ UNCHANGED notCadence
    \/ \E w \in Workers : RetentionWork(w)

\* the workers keep running; nobody is bound to send requests
RetentionSpec ==
    /\ RetentionInit
    /\ [][RetentionNext]_vars
    /\ \A w \in Workers : WF_vars(RetentionWork(w))

\* backup job j has completed, its backup type has a retention, and there is an
\* id left for one more job
CompletedWithRetention(j) ==
    /\ FreeIds # {}
    /\ jobMeta[j].type = "backup"
    /\ rows[j].status = JobStatusCompleted
    /\ RetentionConfigured(madeType[j])

\* k is a cleanup job for the instance and backup type of job j
CleanupJobFor(k, j) ==
    /\ rows[k].status # "absent"
    /\ jobMeta[k].type = "cleanup"
    /\ jobMeta[k].inst = jobMeta[j].inst
    /\ madeType[k] = madeType[j]

\* C30: once a backup job of an instance and backup type with a configured
\* retention has completed, a cleanup job for that instance and backup type is
\* enqueued.
CleanupFollowsBackup ==
    \A j \in JobIds :
        CompletedWithRetention(j) ~> (\E k \in JobIds : CleanupJobFor(k, j))


\* the elements of a sequence
Elements(seq) == {seq[i] : i \in 1..Len(seq)}

\* the objects CleanupOldBackups selected after its listing
SelectedForDeletion ==
    IF clean.err \/ Len(clean.listed) <= retention THEN {}
    ELSE Elements(ObjectsToDelete(clean.listed, retention))

\* C31: a DeleteFile that fails does not end the cleanup: while the loop runs
\* every selected object has been attempted or is still to come, and when
\* CleanupOldBackups has returned after a successful listing every selected
\* object was attempted and the result is nil.
CleanupSurvivesFailedDelete ==
    /\ clean.pc = "deleting" =>
          clean.attempted \cup Elements(clean.todo) = SelectedForDeletion
    /\ (clean.pc = "done" /\ clean.listed # <<>>) =>
          /\ clean.attempted = SelectedForDeletion
          /\ ~clean.err

\* a cleanup that returned after a failed deletion and went on to other objects
CleanupSurvivesFailedDeleteWitness ==
    /\ clean.pc = "done"
    /\ ~clean.err
    /\ clean.failures > 0
    /\ Cardinality(clean.attempted) >= 2
    /\ \E k \in clean.attempted : k \notin objects


(* ------------------------------ restore ------------------------------- *)
\* Two pieces of code restore: BackupService.RestoreBackup of the legacy
\* service (checks, download to a temp file, psql) and the worker's
\* processRestoreJob, which handles the restore jobs of the queue.

\* priority CreateRestoreJob gives a request without one, MaxRetries of
\* AddRestoreJob
RestorePriority == 8
RestoreMaxRetries == 1

\* what DownloadFile can do: os.Create fails, the download fails after the file
\* was created, or the file is downloaded
DownloadOutcomes == {"create", "download", "ok"}

\* a backup as the restore finds it
RestorableBackups ==
    {AbsentBackup,
     [status |-> BackupStatusCompleted, end_time |-> TRUE, s3_key |-> TRUE, job_id |-> 0],
     [status |-> BackupStatusFailed, end_time |-> TRUE, s3_key |-> FALSE, job_id |-> 0]}

\* the queues started, no job, and backups of earlier days
RestoreInit ==
    /\ schema = SchemaMigration
    /\ now = 0
    /\ rows = [j \in JobIds |-> AbsentRow]
    /\ chan = [q \in Queues |-> <<>>]
    /\ ldr = [q \in Queues |-> [pc |-> "wait", batch |-> <<>>]]
    /\ wrk = [w \in Workers |-> [pc |-> "idle", job |-> <<>>]]
    /\ claimsNet = [j \in JobIds |-> 0]
    /\ loaderPushes = [j \in JobIds |-> 0]
    /\ crashes = 0
    /\ QueuesStarted
    /\ backups \in [BackupIds -> RestorableBackups]
    /\ jobBackup = [j \in JobIds |-> 0]
    /\ hnd = [w \in Workers |-> NoHandler]
    /\ apiUpd = {}
    /\ NoScheduler
    /\ NoCleanup
    /\ NoTickLog
    /\ NoCadence
    /\ NoRestore
    /\ NoDump

\* RestoreBackup up to the download: the backup must exist and be completed,
\* the instance must be configured; then the path restore_{id}_{unix}.sql
RestoreCheck(b, instOk) ==
    /\ rst[b].pc = "idle"
    /\ rst' = [rst EXCEPT ![b] =
                 IF backups[b].status = "absent"
                 THEN [NoRestoreCall EXCEPT !.pc = "returned", !.ret = "not found"]
                 ELSE IF backups[b].status # BackupStatusCompleted
                 THEN [NoRestoreCall EXCEPT !.pc = "returned", !.ret = "not completed"]
                 ELSE IF ~instOk
                 THEN [NoRestoreCall EXCEPT !.pc = "returned", !.ret = "no instance"]
                 ELSE [NoRestoreCall EXCEPT !.pc = "download", !.path = <<b, now>>]]
    /\ UNCHANGED tempFiles

\* DownloadFile: os.Create of the local file, then the download; on its error
\* RestoreBackup returns, before the defer of os.Remove is reached
RestoreDownload(b, outcome) ==
    /\ rst[b].pc = "download"
    /\ tempFiles' = IF outcome = "create" THEN tempFiles
                    ELSE tempFiles \cup {rst[b].path}
    /\ rst' = [rst EXCEPT ![b].pc = IF outcome = "ok" THEN "psql" ELSE "returned",
                          ![b].ret = IF outcome = "ok" THEN "none" ELSE "download failed"]

\* psql runs on the target database; RestoreBackup returns and the deferred
\* os.Remove deletes the file
RestorePsql(b, ok) ==
    /\ rst[b].pc = "psql"
    /\ tempFiles' = tempFiles \ {rst[b].path}
    /\ rst' = [rst EXCEPT ![b].pc = "returned", ![b].touched = TRUE,
                          ![b].ret = IF ok THEN "nil" ELSE "psql failed"]

\* state RestoreBackup leaves alone
notRestore == <<lifeVars, backupVars, schedVars, cleanupVars, orderVars, cadVars, dumpVars>>

\* CreateRestoreJob, AddRestoreJob: a restore job for backup b; the request is
\* not checked against the backups table
AddRestoreJob(q, b) ==
    /\ FreeIds # {}
    /\ LET j == CHOOSE k \in FreeIds : \A m \in FreeIds : k <= m
           meta == [inst |-> "A", db |-> "d1", type |-> "restore",
                    backup_type |-> "", tick_enabled |-> TRUE]
       IN /\ AddJob(q, RestorePriority, RestoreMaxRetries, TRUE)
          /\ jobMeta' = [jobMeta EXCEPT ![j] = persistJob(meta)]
          /\ jobBackup' = [jobBackup EXCEPT ![j] = b]
    /\ UNCHANGED <<backups, hnd, apiUpd, instDbs, enabled, sched, backupMeta>>

\* processRestoreJob: reads the payload, sleeps, returns nil
RestoreJobHandler(w) ==
    /\ wrk[w].pc = "working"
    /\ hnd[w].pc = "none"
    /\ JobTypeOf(w) = "restore"
    /\ hnd' = [hnd EXCEPT ![w] = [NoHandler EXCEPT !.pc = "returned", !.ok = TRUE]]
    /\ UNCHANGED <<coreVars, backups, jobBackup, apiUpd>>

\* state a restore job leaves alone
notRestoreJob == <<lifeVars, cleanupVars, orderVars, cadVars, restoreVars, dumpVars>>

RestoreNext ==
    \/ \E b \in BackupIds, instOk \in BOOLEAN :
          RestoreCheck(b, instOk) /\ UNCHANGED <<coreVars, notRestore>>
    \/ \E b \in BackupIds, outcome \in DownloadOutcomes :
          RestoreDownload(b, outcome) /\ UNCHANGED <<coreVars, notRestore>>
    \/ \E b \in BackupIds, ok \in BOOLEAN :
          RestorePsql(b, ok) /\ UNCHANGED <<coreVars, notRestore>>
    \/ Tick /\ UNCHANGED extVars
    \/ \E q \in Queues, b \in BackupIds : AddRestoreJob(q, b) /\ UNCHANGED notRestoreJob
    \/ \E w \in Workers : WorkerReceive(w) /\ UNCHANGED extVars
    \/ \E w \in Workers : RestoreJobHandler(w) /\ UNCHANGED notBackup
    \/ \E w \in Workers : BackupJobFinish(w) /\ UNCHANGED notBackup

RestoreSpec == RestoreInit /\ [][RestoreNext]_vars

\* C32: when RestoreBackup has returned, on success, on a failed download and
\* on a failed psql, the temp file of the call does not exist.
RestoreRemovesTempFile ==
    \A b \in BackupIds :
        (rst[b].pc = "returned" /\ rst[b].path # <<>>) => rst[b].path \notin tempFiles

\* C33: a restore job whose backup is missing or not completed never gets the
\* status completed.
RestoreJobNeedsCompletedBackup ==
    \A j \in JobIds :
        (/\ jobMeta[j].type = "restore"
         /\ jobBackup[j] # 0
         /\ backups[jobBackup[j]].status # BackupStatusCompleted)
            => rows[j].status # JobStatusCompleted


(* ----------------------------- dump files ------------------------------ *)
\* The workers of one process run processBackupJob side by side and write
\* their dumps into one temp directory.  The file name is made of the instance
\* name, the database, the backup type and backup.StartTime formatted to the
\* second.  Times are pairs <<second, nanosecond>>.

\* time.Now()
ClockNow == <<now, nano>>

\* t.Format("2006-01-02-15-04-05"): the time to the second
FormatSeconds(t) == t[1]

\* localPath of the backup b of a job: tempDir/{name}_Postgres_1_{db}_{type}_{time}.sql
LocalPath(b) ==
    <<backupMeta[b].inst, backupMeta[b].db, backupMeta[b].backup_type,
      FormatSeconds(startTime[b])>>

DumpInit == BackupInit

\* CreateBackupJob for database db of instance A: the Backup gets StartTime:
\* time.Now(), the job goes to the queue of this process
DumpCreate(db, pr) ==
    /\ FreeIds # {}
    /\ FreeBackupIds # {}
    /\ LET j == CHOOSE k \in FreeIds : \A m \in FreeIds : k <= m
           b == CHOOSE k \in FreeBackupIds : \A m \in FreeBackupIds : k <= m
           meta == [inst |-> "A", db |-> db, type |-> "backup",
                    backup_type |-> "manual", tick_enabled |-> TRUE]
       IN /\ CreateBackupJob(SchedQueue, pr, TRUE)
          /\ backupMeta' = [backupMeta EXCEPT ![b] = [meta EXCEPT !.type = ""]]
          /\ jobMeta' = [jobMeta EXCEPT ![j] = persistJob(meta)]
          /\ startTime' = [startTime EXCEPT ![b] = ClockNow]
    /\ nano' = IF nano < MaxNano THEN nano + 1 ELSE nano
    /\ UNCHANGED <<instDbs, enabled, sched, dmp>>

\* the clock reaches the next second
DumpTick ==
    /\ Tick
    /\ nano' = 0
    /\ UNCHANGED <<dmp, startTime>>

\* Worker.Start of worker k receives a job from the channel of the queue
DumpReceive(k) ==
    /\ dmp[k].pc = "idle"
    /\ chan[SchedQueue] # <<>>
    /\ dmp' = [dmp EXCEPT ![k] = [pc |-> "received", job |-> Head(chan[SchedQueue]).id,
                                  path |-> <<>>]]
    /\ chan' = [chan EXCEPT ![SchedQueue] = Tail(@)]
    /\ UNCHANGED <<schema, now, rows, ldr, wrk, claimsNet, loaderPushes, crashes,
                   backupVars, startTime, nano>>

\* processBackupJob up to pg_dump: GetByID, the Update to in_progress, the file
\* name; pg_dump -f localPath is running
DumpStart(k) ==
    /\ dmp[k].pc = "received"
    /\ LET b == PayloadBackupId(dmp[k].job)
       IN /\ backups' = [backups EXCEPT ![b] =
                           UpdateBackup(@, [@ EXCEPT !.status = BackupStatusInProgress])]
          /\ dmp' = [dmp EXCEPT ![k].pc = "writing", ![k].path = LocalPath(b)]
    /\ UNCHANGED <<coreVars, jobBackup, hnd, apiUpd, startTime, nano>>

\* pg_dump is through: the Update to completed, the end of processJob
DumpEnd(k) ==
    /\ dmp[k].pc = "writing"
    /\ LET b == PayloadBackupId(dmp[k].job)
           job == [id |-> dmp[k].job, retry_count |-> 0, started_at |-> now]
       IN /\ backups' = [backups EXCEPT ![b] =
                           UpdateBackup(@, [@ EXCEPT !.status = BackupStatusCompleted,
                                                     !.end_time = TRUE])]
          /\ rows' = UpdateJobStatus(job, JobStatusCompleted)
    /\ dmp' = [dmp EXCEPT ![k] = NoDumpJob]
    /\ UNCHANGED <<schema, now, chan, ldr, wrk, claimsNet, loaderPushes, crashes,
                   jobBackup, hnd, apiUpd, startTime, nano>>

\* state the dumps leave alone
notDump == <<lifeVars, cleanupVars, orderVars, cadVars, restoreVars>>

DumpNext ==
    \/ \E db \in DbNames, pr \in Priorities : DumpCreate(db, pr) /\ UNCHANGED notDump
    \/ DumpTick /\ UNCHANGED <<notDump, backupVars, schedVars>>
    \/ \E k \in DumpWorkers : DumpReceive(k) /\ UNCHANGED <<notDump, schedVars>>
    \/ \E k \in DumpWorkers : DumpStart(k) /\ UNCHANGED <<notDump, schedVars>>
    \/ \E k \in DumpWorkers : DumpEnd(k) /\ UNCHANGED <<notDump, schedVars>>

DumpSpec == DumpInit /\ [][DumpNext]_vars

\* C34: two workers that run pg_dump at the same time write different files.
DumpPathsDistinct ==
    \A k1, k2 \in DumpWorkers :
        (k1 # k2 /\ dmp[k1].pc = "writing" /\ dmp[k2].pc = "writing")
            => dmp[k1].path # dmp[k2].path


\* C35: the status the dispatcher writes when a handler has returned is one the
\* CHECK of the jobs table accepts, and the row carries it after the write (a
\* job to be retried is not left in its old status).
DispatcherWriteAccepted ==
    [][\A w \in Workers, ok \in BOOLEAN :
          WorkerFinish(w, ok) =>
             LET job == wrk[w].job[1]
                 written == DispatchStatus(ok, IF ok THEN job.retry_count
                                               ELSE job.retry_count + 1,
                                           job.max_retries)
             IN /\ written \in StatusCheck(schema)
                /\ rows'[job.id].status = written]_vars


\* C36: the row of a job a worker is executing is in status running.
ExecutingRowIsRunning ==
    \A w \in Workers :
        wrk[w].pc = "working" => rows[wrk[w].job[1].id].status = JobStatusRunning


\* no worker is executing, the channels are empty, no loader is in a batch and
\* no creator has its follow-up Update to come
Quiescent ==
    /\ \A w \in Workers : wrk[w].pc = "idle"
    /\ \A q \in Queues : chan[q] = <<>> /\ ldr[q].pc = "wait"
    /\ apiUpd = {}

\* b is the Backup of job j: named by the job's backup_id, or created by the
\* handler for it
BackupOfJob(b, j) ==
    /\ backups[b].status \notin {"absent", "deleted"}
    /\ rows[j].status # "absent"
    /\ (jobBackup[j] = b \/ (jobBackup[j] = 0 /\ backups[b].job_id = j))

\* C37: in a quiescent state the Backup of a completed backup job is completed,
\* and a failed Backup belongs to a job that is failed or retrying.
JobAndBackupAgree ==
    Quiescent =>
        \A j \in JobIds, b \in BackupIds :
            BackupOfJob(b, j) =>
               /\ rows[j].status = JobStatusCompleted
                     => backups[b].status = BackupStatusCompleted
               /\ backups[b].status = BackupStatusFailed
                     => rows[j].status \in {JobStatusFailed, JobStatusRetrying}


\* the Backup rows that carry the id of job j
BackupsOfJob(j) == {b \in BackupIds : backups[b].status # "absent" /\ backups[b].job_id = j}

\* C38: a backup job created without a backup id has at most one Backup row,
\* and exactly one once a handler has resolved its Backup.
OneBackupPerJob ==
    \A j \in JobIds :
        (rows[j].status # "absent" /\ jobBackup[j] = 0) =>
            /\ Cardinality(BackupsOfJob(j)) <= 1
            /\ (\E w \in Workers : Handles(w, j) /\ hnd[w].pc # "none")
                   => Cardinality(BackupsOfJob(j)) = 1


\* Stop has returned on queue q and Start after it: IsRunning reports true
Restarted(q) == running[q] /\ stopPc[q] = "done"

\* C39: on a queue that runs again after Stop and Start no worker goroutine
\* returns, and an AddJob whose select runs then returns nil, or queue full
\* when the channel has no room.
RestartRestoresQueue ==
    [][\A q \in Queues :
          Restarted(q) =>
             /\ \A w \in Workers : w[1] = q => ~WorkerExit(w)
             /\ \A j \in JobIds, pick \in {"send", "done"} :
                   (adds[j].q = q /\ AddJobSelect(j, pick))
                      => adds'[j].ret \in {"nil", ErrQueueFull}]_vars

====
